---- MODULE Spec2Model ----
(***************************************************************************)
(* A model of the indexing and discovery engine of the local media         *)
(* discovery app: the media/source store, the feed ranking engine, the     *)
(* recursive indexer, the filesystem watcher, the thumbnail cache and the  *)
(* integrity sweeper.                                                      *)
(*                                                                         *)
(* Conventions.                                                            *)
(*  - A path is a sequence of segments, <<"root", "A", "1.jpg">>.          *)
(*  - sha256(p).substring(0, 16) is the symbolic value [sha |-> p]: it is  *)
(*    deterministic and injective on the paths of the model.               *)
(*  - An optional value (undefined | x) is a set: {} or {x}.               *)
(*  - Time is counted in whole days; Math.random() * 100 is one of the     *)
(*    integers NoiseVals, all below NoiseRange.                            *)
(***************************************************************************)
EXTENDS Integers, Sequences, FiniteSets, TLC

----------------------------------------------------------------------------
(* Bounds of the model *)

\* interaction requests (like, save, view, hide) per behaviour
MaxOps == 1
\* largest page size a feed request asks for
MaxPageSize == 2
\* number of values the random noise is drawn from
NoiseLevels == 2
\* largest view count and depth of a row scored in SpecScore
MaxViewCount == 3
MaxDepth == 11
\* days past the end of the recency bonus that SpecScore looks at
MaxOverAge == 1
\* filesystem changes (a file created or removed) per behaviour
MaxFsOps == 1
\* index requests accepted per behaviour
MaxRuns == 2
\* calls of startWatcher and stopWatcher and addDir events per behaviour
MaxWatcherOps == 4
\* seconds that pass per behaviour of the watcher
MaxWatcherTime == 4
MaxHiddenFolders == 1
MaxIdentities == 4
MaxRestarts == 1
MaxGenTime == 2
\* like, save, hide and view requests applied per behaviour
MaxToggles == 3
MaxBatchLen == 2
MaxBatches == 2
\* calls of checkIntegrity per behaviour
MaxChecks == 3
\* calls of getThumbnail and changes of its files per behaviour
MaxThumbOps == 4

----------------------------------------------------------------------------
(* Program constants of the ranking function *)

UnseenBonus == 1000
ViewPenalty == 10
LikeBonus == 500
SaveBonus == 300
ProximityBase == 10
ProximityWeight == 20
NoiseRange == 100
DecayDays == 50
\* the delay of setTimeout in debounceSourceRegeneration, in seconds
DebounceDelay == 3
AdjectivesLength == 48
NounsLength == 48
BatchLimit == 100

----------------------------------------------------------------------------
(* Paths, names and identifiers *)

Root == <<"root">>

\* path.join(dir, name)
Join(dir, name) == Append(dir, name)

\* path.relative(rootFolder, p).split(path.sep), for p at or below rootFolder
RelativeParts(p, rootFolder) ==
    IF p = rootFolder THEN <<"">>
    ELSE SubSeq(p, Len(rootFolder) + 1, Len(p))

\* createHash('sha256').update(p).digest('hex').substring(0, 16)
generateFileId(p) == [sha |-> p]

generateSourceId(folderPath) == generateFileId(folderPath)

\* getFileDepth: parts.length - 1
getFileDepth(p, rootFolder) == Len(RelativeParts(p, rootFolder)) - 1

\* getSourceFolder: the first segment below the root, joined to the root.
\* parts is never empty and parts[0] is "." for no path, so for a file placed
\* directly in the root the result is the file's own path.
getSourceFolder(p, rootFolder) ==
    LET parts == RelativeParts(p, rootFolder)
    IN  IF Len(parts) = 0 \/ parts[1] = "." THEN {}
        ELSE {Join(rootFolder, parts[1])}

Users == {"u1", "u2"}

\* path.extname(name), on the names of the model
ExtName(name) ==
    CASE name \in {"1.jpg", "2.jpg", "r.jpg", ".h.jpg"} -> ".jpg"
      [] name = "3.MP4" -> ".MP4"
      [] name = "n.txt" -> ".txt"
      [] OTHER -> ""

\* String.prototype.toLowerCase, on the extensions of the model
ToLowerCase(ext) == IF ext = ".MP4" THEN ".mp4" ELSE ext

\* name.startsWith('.')
StartsWithDot(name) == name \in {".h.jpg", ".hid"}

\* config.supportedMedia
SupportedImages == {".jpg", ".jpeg", ".png", ".webp", ".gif"}
SupportedVideos == {".mp4", ".webm", ".mov"}

\* getMediaType: 'image' | 'video' | null
getMediaType(p) ==
    LET ext == ToLowerCase(ExtName(p[Len(p)]))
    IN  IF ext \in SupportedImages THEN {"image"}
        ELSE IF ext \in SupportedVideos THEN {"video"}
        ELSE {}

Max(a, b) == IF a >= b THEN a ELSE b

\* all orderings of a finite set, as sequences without repetition
Perms(S) ==
    {f \in [1..Cardinality(S) -> S] : \A i, j \in 1..Cardinality(S) : f[i] = f[j] => i = j}

----------------------------------------------------------------------------
(* The store *)

VARIABLES
    media,          \* table media: records [id, path, sourceId, depth, type, createdAt]
    sources,        \* table sources: records [id, folderPath]
    userFolders,    \* table user_folders: records [userId, sourceId]
    interactions,   \* table user_interactions: <<user, source, media>> -> flags
    hiddenFolders,  \* table user_hidden_folders: records [userId, sourceId, folderPath, hidden]
    now,            \* the clock, in days
    opCount,        \* interaction requests served so far
    feedResp,       \* the last response of GET /api/feed, {} before the first
    fsFiles,        \* the regular files on disk (paths)
    fsDirs,         \* the directories on disk below the root (paths)
    fsOps,          \* filesystem changes made so far
    idx,            \* the POST /api/index requests: position, scan, result
    runCount,       \* index requests accepted so far
    lastRun,        \* history: the last finished index run, {} before the first
    cmp,            \* two rows scored and sorted side by side, {} when none
    watcher,        \* watcher.ts: the module variable watcher, {} when null
    openSubs,       \* the chokidar watchers created and not yet closed
    pendingStops,   \* stopWatcher calls suspended at await watcher.close()
    debounceTimer,  \* watcher.ts: the module variable debounceTimer, {} when null
    armedTimers,    \* timers set and neither fired nor cleared
    wIds,           \* watchers, timers and stop calls created so far
    wNow,           \* the clock of the timers, in seconds
    lastDirEvent,   \* history: the time of the last top-level addDir event
    stopCalled,     \* history: startWatcher or stopWatcher was called since
    regens,         \* history: the source regenerations run by the timer
    lastFsEvent,    \* history: the last add or unlink event and its outcome
    isRunning,      \* FileIntegrityService.isRunning
    lastCheckTime,  \* FileIntegrityService.lastCheckTime
    chk,            \* the integrity check calls: position, work list, result
    chkCalls,       \* integrity check calls made so far
    cache,          \* ThumbnailService.cache: media id -> entry
    cacheFile,      \* the entries last written to cache.json
    thumbFiles,     \* the thumbnail artifacts on disk (paths)
    srcStat,        \* size and mtime of the media file, {} when it is missing
    fsClock,        \* the filesystem's clock: changes made to the file so far
    lastOk,         \* history: the last getThumbnail call that returned
    th,             \* the getThumbnail calls: position, locals, result
    identities,     \* history: the folder identities computed by generateSources
    proc,           \* the server process: restarts so far
    batchReq,       \* the POST /api/thumbnails/batch request being served
    items,          \* the request's callbacks of ids.map, one per id
    genCount,       \* history: thumbnails generated so far, per media id
    batches,        \* batch requests made so far
    cleanup,        \* history: the result of the last cleanupOrphanedThumbnails call
    fsDenied,       \* the directories of the disk that readdir fails on
    applied,        \* history: the like, save, hide and view requests applied, per row and kind
    thCalls         \* getThumbnail calls made so far

storeVars == <<media, sources, userFolders, interactions, hiddenFolders>>
fsVars == <<fsFiles, fsDirs, fsOps>>
feedVars == <<now, opCount, feedResp>>
indexVars == <<idx, runCount, lastRun>>
scoreVars == <<cmp>>
watcherVars == <<watcher, openSubs, pendingStops, debounceTimer, armedTimers, wIds,
                 wNow, lastDirEvent, stopCalled, regens, lastFsEvent>>
integrityVars == <<isRunning, lastCheckTime, chk, chkCalls>>
thumbVars == <<cache, cacheFile, thumbFiles, srcStat, fsClock, lastOk, th, thCalls>>
toggleVars == <<applied>>
scanVars == <<fsDenied>>
sweepVars == <<cleanup>>
batchVars == <<batchReq, items, genCount, batches>>
identityVars == <<identities, proc>>

vars == <<applied, fsDenied, cleanup, batchReq, items, genCount, batches, identities, proc, media, sources, userFolders, interactions, hiddenFolders, now, opCount, feedResp,
          fsFiles, fsDirs, fsOps, idx, runCount, lastRun, cmp,
          watcher, openSubs, pendingStops, debounceTimer, armedTimers, wIds,
          wNow, lastDirEvent, stopCalled, regens, lastFsEvent,
          isRunning, lastCheckTime, chk, chkCalls,
          cache, cacheFile, thumbFiles, srcStat, fsClock, lastOk, th, thCalls>>

----------------------------------------------------------------------------
(* Feed ranking engine: generateFeed and generatePaginatedFeed *)

\* COALESCE(ui.liked, 0), ... of a media row that has no interaction row
NoInteraction == [liked |-> 0, saved |-> 0, hidden |-> 0, viewCount |-> 0]

\* the join without its user_id condition: a row of any user for the media
InteractionOf_AnyUser(u, m) ==
    LET rows == {k \in DOMAIN interactions : k[2] = m.sourceId /\ k[3] = m.id}
    IN  IF rows # {} THEN interactions[CHOOSE k \in rows : TRUE] ELSE NoInteraction

\* LEFT JOIN user_interactions ui ON m.id = ui.media_id
\*   AND m.source_id = ui.source_id AND ui.user_id = ?
InteractionOf(u, m) ==
    IF <<u, m.sourceId, m.id>> \in DOMAIN interactions
    THEN interactions[<<u, m.sourceId, m.id>>]
    ELSE NoInteraction

\* m.path LIKE uhf.folder_path || '/%' OR m.path = uhf.folder_path
PathLike(p, folderPath) ==
    \/ Len(p) > Len(folderPath) /\ SubSeq(p, 1, Len(folderPath)) = folderPath
    \/ p = folderPath

\* The feed query without the user_hidden_folders clause.
Candidates_NoHiddenFolders(u, sourceId) ==
    {[id |-> m.id, path |-> m.path, type |-> m.type, sourceId |-> m.sourceId,
      depth |-> m.depth, createdAt |-> m.createdAt,
      liked |-> InteractionOf(u, m).liked, saved |-> InteractionOf(u, m).saved,
      viewCount |-> InteractionOf(u, m).viewCount] :
        m \in {x \in media :
                 /\ \E s \in sources : s.id = x.sourceId
                 /\ InteractionOf(u, x).hidden = 0
                 /\ (sourceId = {} \/ x.sourceId \in sourceId)
                 /\ \E g \in userFolders : g.userId = u /\ g.sourceId = x.sourceId}}

\* The rows of the feed query for user u with the optional source filter.
\* GET /api/feed always passes the authenticated user's id.
Candidates(u, sourceId) ==
    {[id |-> m.id, path |-> m.path, type |-> m.type, sourceId |-> m.sourceId,
      depth |-> m.depth, createdAt |-> m.createdAt,
      liked |-> InteractionOf(u, m).liked, saved |-> InteractionOf(u, m).saved,
      viewCount |-> InteractionOf(u, m).viewCount] :
        m \in {x \in media :
                 /\ \E s \in sources : s.id = x.sourceId
                 /\ InteractionOf(u, x).hidden = 0
                 /\ (sourceId = {} \/ x.sourceId \in sourceId)
                 /\ \E g \in userFolders : g.userId = u /\ g.sourceId = x.sourceId
                 /\ ~\E uhf \in hiddenFolders :
                        /\ uhf.userId = u
                        /\ uhf.sourceId = x.sourceId
                        /\ uhf.hidden = 1
                        /\ PathLike(x.path, uhf.folderPath)}}

\* Math.random() * 100, one of NoiseLevels values spread over [0, NoiseRange)
NoiseVals ==
    {(i * (NoiseRange - 1)) \div Max(NoiseLevels - 1, 1) : i \in 0..(NoiseLevels - 1)}

\* Score without the like bias
Score_NoLikeBias(m, noise, t) ==
      (IF m.viewCount = 0 THEN UnseenBonus ELSE 0 - m.viewCount * ViewPenalty)
    + (IF m.saved # 0 THEN SaveBonus ELSE 0)
    + Max(0, ProximityBase - m.depth) * ProximityWeight
    + noise
    + Max(0, DecayDays - (t - m.createdAt))

\* Score with the same penalty for every viewed row
Score_FlatViewPenalty(m, noise, t) ==
      (IF m.viewCount = 0 THEN UnseenBonus ELSE 0 - ViewPenalty)
    + (IF m.liked # 0 THEN LikeBonus ELSE 0)
    + (IF m.saved # 0 THEN SaveBonus ELSE 0)
    + Max(0, ProximityBase - m.depth) * ProximityWeight
    + noise
    + Max(0, DecayDays - (t - m.createdAt))

\* the score of one row of the query, with its random noise, at time t
Score(m, noise, t) ==
      (IF m.viewCount = 0 THEN UnseenBonus ELSE 0 - m.viewCount * ViewPenalty)
    + (IF m.liked # 0 THEN LikeBonus ELSE 0)
    + (IF m.saved # 0 THEN SaveBonus ELSE 0)
    + Max(0, ProximityBase - m.depth) * ProximityWeight
    + noise
    + Max(0, DecayDays - (t - m.createdAt))

\* the rows sorted by ascending score
RankedOrders_Ascending(rows, noise, t) ==
    {r \in Perms(rows) :
        \A i, j \in 1..Len(r) : i < j =>
            \/ Score(r[i], noise[r[i]], t) < Score(r[j], noise[r[j]], t)
            \/ /\ Score(r[i], noise[r[i]], t) = Score(r[j], noise[r[j]], t)
               /\ r[i].createdAt <= r[j].createdAt}

\* .sort((a, b) => b.score - a.score) over the rows in the query's order
\* (ORDER BY m.created_at ASC): descending by score; the sort is stable, and
\* the order of rows with equal created_at is the storage engine's choice.
RankedOrders(rows, noise, t) ==
    {r \in Perms(rows) :
        \A i, j \in 1..Len(r) : i < j =>
            \/ Score(r[i], noise[r[i]], t) > Score(r[j], noise[r[j]], t)
            \/ /\ Score(r[i], noise[r[i]], t) = Score(r[j], noise[r[j]], t)
               /\ r[i].createdAt <= r[j].createdAt}

FeedItem(m) ==
    [id |-> m.id, path |-> m.path, type |-> m.type, sourceId |-> m.sourceId,
     liked |-> (m.liked = 1), saved |-> (m.saved = 1), depth |-> m.depth]

\* DiversityFilter that never updates lastUsedSourceId
RECURSIVE DiversityFilter_NoUpdate(_, _, _, _)
DiversityFilter_NoUpdate(scoredMedia, limit, lastUsedSourceId, feed) ==
    IF scoredMedia = <<>> \/ Len(feed) >= limit THEN feed
    ELSE IF Head(scoredMedia).sourceId \in lastUsedSourceId
         THEN DiversityFilter_NoUpdate(Tail(scoredMedia), limit, lastUsedSourceId, feed)
         ELSE DiversityFilter_NoUpdate(Tail(scoredMedia), limit, lastUsedSourceId,
                                       Append(feed, FeedItem(Head(scoredMedia))))

\* Step 3 of generateFeed: the loop over the ranked rows
RECURSIVE DiversityFilter(_, _, _, _)
DiversityFilter(scoredMedia, limit, lastUsedSourceId, feed) ==
    IF scoredMedia = <<>> \/ Len(feed) >= limit THEN feed
    ELSE IF Head(scoredMedia).sourceId \in lastUsedSourceId
         THEN DiversityFilter(Tail(scoredMedia), limit, lastUsedSourceId, feed)
         ELSE DiversityFilter(Tail(scoredMedia), limit,
                              {Head(scoredMedia).sourceId},
                              Append(feed, FeedItem(Head(scoredMedia))))

\* generateFeed without the diversity rule: the first limit ranked rows
generateFeed_NoDiversity(scoredMedia, limit, offset, lastSourceId) ==
    [i \in 1..(IF Len(scoredMedia) < limit THEN Len(scoredMedia) ELSE limit) |->
        FeedItem(scoredMedia[i])]

\* generateFeed that skips the first offset ranked rows
generateFeed_WithOffset(scoredMedia, limit, offset, lastSourceId) ==
    DiversityFilter(SubSeq(scoredMedia, offset + 1, Len(scoredMedia)), limit,
                    lastSourceId, <<>>)

\* generateFeed on an already ranked list; offset is read and never used
generateFeed(scoredMedia, limit, offset, lastSourceId) ==
    DiversityFilter(scoredMedia, limit, lastSourceId, <<>>)

\* Array.prototype.slice(0, n)
Slice0(s, n) ==
    IF n >= 0 THEN SubSeq(s, 1, IF n < Len(s) THEN n ELSE Len(s))
    ELSE SubSeq(s, 1, Max(0, Len(s) + n))

\* generatePaginatedFeed that fetches itemsPerPage items and no extra one
generatePaginatedFeed_NoExtra(scoredMedia, page, itemsPerPage, lastSourceId) ==
    LET feed == generateFeed(scoredMedia, itemsPerPage, page * itemsPerPage,
                             lastSourceId)
    IN  [items |-> Slice0(feed, itemsPerPage),
         hasMore |-> Len(feed) > itemsPerPage,
         page |-> page]

generatePaginatedFeed(scoredMedia, page, itemsPerPage, lastSourceId) ==
    LET feed == generateFeed(scoredMedia, itemsPerPage + 1, page * itemsPerPage,
                             lastSourceId)
    IN  [items |-> Slice0(feed, itemsPerPage),
         hasMore |-> Len(feed) > itemsPerPage,
         page |-> page]

----------------------------------------------------------------------------
(* The store's statements, with the constraints of the schema.             *)
(* getDatabase sets PRAGMA foreign_keys = ON, so a statement that breaks   *)
(* a FOREIGN KEY throws; OR IGNORE skips PRIMARY KEY and UNIQUE conflicts  *)
(* only.                                                                   *)

TheOne(S) == CHOOSE x \in S : TRUE

Range(s) == {s[i] : i \in 1..Len(s)}

SourceIdsOf(src) == {x.id : x \in src}

\* FOREIGN KEY (media_id) REFERENCES media(id) of user_interactions
MediaReferenced(id, inter) == \E k \in DOMAIN inter : k[3] = id

\* DELETE FROM media WHERE path = ?, run for each path in turn; the first
\* statement that throws ends the loop
RECURSIVE RunDeletes(_, _, _)
RunDeletes(paths, tbl, inter) ==
    IF paths = <<>> THEN [media |-> tbl, ok |-> TRUE]
    ELSE LET hit == {m \in tbl : m.path = Head(paths)}
         IN  IF \E m \in hit : MediaReferenced(m.id, inter)
             THEN [media |-> tbl, ok |-> FALSE]
             ELSE RunDeletes(Tail(paths), tbl \ hit, inter)

\* the insert of a store that does not enforce the foreign key
InsertMediaOutcome_NoForeignKey(f, tbl, src) ==
    IF \E m \in tbl : m.id = f.id \/ m.path = f.path THEN "ignored" ELSE "inserted"

\* INSERT OR IGNORE INTO media (id, path, source_id, depth, type): "ignored",
\* "inserted", or "throws" on FOREIGN KEY (source_id) REFERENCES sources(id)
InsertMediaOutcome(f, tbl, src) ==
    IF \E m \in tbl : m.id = f.id \/ m.path = f.path THEN "ignored"
    ELSE IF f.sourceId \notin SourceIdsOf(src) THEN "throws"
    ELSE "inserted"

MediaRow(f, t) ==
    [id |-> f.id, path |-> f.path, sourceId |-> f.sourceId, depth |-> f.depth,
     type |-> f.type, createdAt |-> t]

\* insertStmt.run(...) for each new file in turn
RECURSIVE RunInserts(_, _, _, _)
RunInserts(files, tbl, src, t) ==
    IF files = <<>> THEN [media |-> tbl, ok |-> TRUE]
    ELSE LET out == InsertMediaOutcome(Head(files), tbl, src)
         IN  IF out = "throws" THEN [media |-> tbl, ok |-> FALSE]
             ELSE RunInserts(Tail(files),
                             IF out = "inserted"
                             THEN tbl \cup {MediaRow(Head(files), t)} ELSE tbl,
                             src, t)

----------------------------------------------------------------------------
(* Recursive indexer: scanDirectory and indexMediaFiles *)

IsUnder(p, dir) == Len(p) > Len(dir) /\ SubSeq(p, 1, Len(dir)) = dir

\* an entry below the root whose name starts with a dot, on the way to p
HasHiddenSegment(p, rootFolder) ==
    \E i \in (Len(rootFolder) + 1)..Len(p) : StartsWithDot(p[i])

MediaFile(p, rootFolder) ==
    [id |-> generateFileId(p), path |-> p,
     sourceId |-> generateFileId(TheOne(getSourceFolder(p, rootFolder))),
     depth |-> getFileDepth(p, rootFolder),
     type |-> TheOne(getMediaType(p))]

\* the files that the scan can reach: readdir of a directory that cannot be
\* listed throws, the catch of that call logs it, and the loop of the
\* directory above goes on with its next entry
Reachable(files, denied) ==
    {f \in files : ~\E d \in denied : IsUnder(f, d)}

\* scanDirectory(rootFolder, rootFolder, mediaFiles) over the files on disk
scanDirectory(rootFolder, files) ==
    {MediaFile(p, rootFolder) :
        p \in {q \in files : /\ IsUnder(q, rootFolder)
                            /\ ~HasHiddenSegment(q, rootFolder)
                            /\ getMediaType(q) # {}
                            /\ getSourceFolder(q, rootFolder) # {}}}

\* indexMediaFiles after the scan: mediaFiles in scan order, existingMedia
\* (SELECT path FROM media) in the store's order
indexMediaFiles(mediaFiles, existingMedia, tbl, src, inter, t) ==
    LET existingPaths == Range(existingMedia)
        scannedPaths == {mediaFiles[i].path : i \in 1..Len(mediaFiles)}
        IsNew(m) == m.path \notin existingPaths
        IsGone(q) == q \notin scannedPaths
        newFiles == SelectSeq(mediaFiles, IsNew)
        removedPaths == SelectSeq(existingMedia, IsGone)
        del == RunDeletes(removedPaths, tbl, inter)
        ins == IF del.ok THEN RunInserts(newFiles, del.media, src, t)
               ELSE [media |-> del.media, ok |-> FALSE]
    IN  [media |-> ins.media,
         status |-> IF ins.ok THEN "returned" ELSE "threw",
         totalScanned |-> Len(mediaFiles),
         newFiles |-> Len(newFiles),
         removedFiles |-> Len(removedPaths),
         sources |-> Cardinality({m.sourceId : m \in ins.media})]

----------------------------------------------------------------------------
(* Source generation: getTopLevelFolders and generateSources *)

\* entries of the root that are directories and not hidden
getTopLevelFolders(rootFolder, dirs) ==
    {d \in dirs : /\ Len(d) = Len(rootFolder) + 1
                  /\ IsUnder(d, rootFolder)
                  /\ ~StartsWithDot(d[Len(d)])}

\* createHash('sha256').update(folderPath).digest('hex') read as a number:
\* the digest is a fixed function of the bytes of the path; this stand-in
\* folds the path's segments into 16 bits.
SegCode(name) ==
    CASE name = "root" -> 114 [] name = "A" -> 65 [] name = "B" -> 66
      [] name = "sub" -> 115 [] OTHER -> 1

RECURSIVE PathCode(_)
PathCode(p) ==
    IF p = <<>> THEN 7
    ELSE (31 * PathCode(SubSeq(p, 1, Len(p) - 1)) + SegCode(p[Len(p)])) % (2^16)

\* parseInt(hash.substring(8 * k, 8 * k + 8), 16)
HexWord(folderPath, k) == (PathCode(folderPath) * (k + 1) + k) % (2^16)

\* a display name that numbers the folders in the order of their creation
generateDisplayName_ByStore(folderPath) ==
    [adjective |-> Cardinality(sources) % AdjectivesLength,
     noun |-> HexWord(folderPath, 1) % NounsLength]

\* `@${ADJECTIVES[adjIndex]}_${NOUNS[nounIndex]}`
generateDisplayName(folderPath) ==
    [adjective |-> HexWord(folderPath, 0) % AdjectivesLength,
     noun |-> HexWord(folderPath, 1) % NounsLength]

\* hash.substring(0, 8)
generateAvatarSeed(folderPath) == HexWord(folderPath, 0)

\* the row generateSources builds for a folder; created_at is the
\* column's default, the time of the insert
SourceRow(d, t) ==
    [id |-> generateSourceId(d), folderPath |-> d,
     displayName |-> generateDisplayName(d),
     avatarSeed |-> generateAvatarSeed(d),
     createdAt |-> t]

\* INSERT OR REPLACE INTO sources for every top-level folder
SourcesAfterGenerate_Replace(rootFolder, dirs, src, t) ==
    {y \in src : \A x \in getTopLevelFolders(rootFolder, dirs) :
                    y.id # generateSourceId(x) /\ y.folderPath # x}
      \cup {SourceRow(d, t) : d \in getTopLevelFolders(rootFolder, dirs)}

\* INSERT OR IGNORE INTO sources for every top-level folder
SourcesAfterGenerate(rootFolder, dirs, src, t) ==
    src \cup {SourceRow(d, t) :
                d \in {x \in getTopLevelFolders(rootFolder, dirs) :
                         ~\E y \in src : y.id = generateSourceId(x) \/ y.folderPath = x}}

\* a regeneration that grants the folders to every user when no user id
\* is given
GrantsAfterGenerate_AllUsers(rootFolder, dirs, userId, grants) ==
    grants \cup {[userId |-> u, sourceId |-> generateSourceId(d)] :
                   u \in (IF userId = {} THEN Users ELSE userId),
                   d \in getTopLevelFolders(rootFolder, dirs)}

\* INSERT OR IGNORE INTO user_folders, when a user id is given
GrantsAfterGenerate(rootFolder, dirs, userId, grants) ==
    grants \cup {[userId |-> u, sourceId |-> generateSourceId(d)] :
                   u \in userId, d \in getTopLevelFolders(rootFolder, dirs)}

----------------------------------------------------------------------------
(* Interaction routes: POST /api/like, /api/save, /api/hide, /api/view *)

MediaIdsOf(tbl) == {m.id : m \in tbl}

\* a handler that sets the flag of an existing row instead of inverting it
ToggleFlag_SetOnly(inter, u, s, m, flag) ==
    IF <<u, s, m>> \in DOMAIN inter
    THEN [inter EXCEPT ![<<u, s, m>>][flag] = 1]
    ELSE IF s \in SourceIdsOf(sources) /\ m \in MediaIdsOf(media)
         THEN (<<u, s, m>> :> [NoInteraction EXCEPT ![flag] = 1]) @@ inter
         ELSE inter

\* the toggle handlers: SELECT the row, then UPDATE it or INSERT a new one.
\* The INSERT throws on an unknown source or media id (answered with 500).
ToggleFlag(inter, u, s, m, flag) ==
    IF <<u, s, m>> \in DOMAIN inter
    THEN [inter EXCEPT ![<<u, s, m>>][flag] = 1 - @]
    ELSE IF s \in SourceIdsOf(sources) /\ m \in MediaIdsOf(media)
         THEN (<<u, s, m>> :> [NoInteraction EXCEPT ![flag] = 1]) @@ inter
         ELSE inter

\* the view handler: view_count = view_count + 1, or INSERT with view_count 1
RecordView(inter, u, s, m) ==
    IF <<u, s, m>> \in DOMAIN inter
    THEN [inter EXCEPT ![<<u, s, m>>].viewCount = @ + 1]
    ELSE IF s \in SourceIdsOf(sources) /\ m \in MediaIdsOf(media)
         THEN (<<u, s, m>> :> [NoInteraction EXCEPT !.viewCount = 1]) @@ inter
         ELSE inter

\* the request is answered with success: its row exists, or its INSERT
\* meets a source and a media that exist
Answered(inter, u, s, m) ==
    \/ <<u, s, m>> \in DOMAIN inter
    \/ s \in SourceIdsOf(sources) /\ m \in MediaIdsOf(media)

\* one more request of this kind applied to the row
Bump(app, key) ==
    (key :> (IF key \in DOMAIN app THEN app[key] + 1 ELSE 1)) @@ app

\* the handler of a toggle route, from its SELECT to its answer; nothing is
\* awaited in between
ToggleRequest(u, s, m, flag) ==
    /\ interactions' = ToggleFlag(interactions, u, s, m, flag)
    /\ applied' = IF Answered(interactions, u, s, m)
                  THEN Bump(applied, <<u, s, m, flag>>) ELSE applied
    /\ UNCHANGED <<scanVars, sweepVars, batchVars, identityVars, hiddenFolders, media, sources, userFolders, now, feedResp, fsVars, indexVars, scoreVars, watcherVars, integrityVars, thumbVars>>

\* the handler of POST /api/view
ViewRequest(u, s, m) ==
    /\ interactions' = RecordView(interactions, u, s, m)
    /\ applied' = IF Answered(interactions, u, s, m)
                  THEN Bump(applied, <<u, s, m, "viewCount">>) ELSE applied
    /\ UNCHANGED <<scanVars, sweepVars, batchVars, identityVars, hiddenFolders, media, sources, userFolders, now, feedResp, fsVars, indexVars, scoreVars, watcherVars, integrityVars, thumbVars>>

Like(u, s, m) ==
    /\ opCount < MaxOps
    /\ feedResp = {}
    /\ ToggleRequest(u, s, m, "liked")
    /\ opCount' = opCount + 1

Save(u, s, m) ==
    /\ opCount < MaxOps
    /\ feedResp = {}
    /\ ToggleRequest(u, s, m, "saved")
    /\ opCount' = opCount + 1

Hide(u, s, m) ==
    /\ opCount < MaxOps
    /\ feedResp = {}
    /\ ToggleRequest(u, s, m, "hidden")
    /\ opCount' = opCount + 1

View(u, s, m) ==
    /\ opCount < MaxOps
    /\ feedResp = {}
    /\ ViewRequest(u, s, m)
    /\ opCount' = opCount + 1

\* POST /api/folders/hide: 403 without a grant for the source, else toggle
\* the row of (user, source, folder) or insert it with hidden = 1.
HideFolder(u, s, folderPath) ==
    /\ feedResp = {}
    /\ LET existing == {h \in hiddenFolders :
                          h.userId = u /\ h.sourceId = s /\ h.folderPath = folderPath}
       IN  IF ~\E g \in userFolders : g.userId = u /\ g.sourceId = s
           THEN UNCHANGED hiddenFolders
           ELSE IF existing # {}
           THEN hiddenFolders' = (hiddenFolders \ existing)
                                   \cup {[h EXCEPT !.hidden = 1 - @] : h \in existing}
           ELSE /\ Cardinality(hiddenFolders) < MaxHiddenFolders
                /\ s \in SourceIdsOf(sources)
                /\ hiddenFolders' = hiddenFolders \cup
                     {[userId |-> u, sourceId |-> s, folderPath |-> folderPath, hidden |-> 1]}
    /\ UNCHANGED <<toggleVars, scanVars, sweepVars, batchVars, identityVars, media, sources, userFolders, interactions, feedVars, fsVars, indexVars, scoreVars, watcherVars, integrityVars, thumbVars>>

----------------------------------------------------------------------------
(* GET /api/feed *)

\* The handler: query, score with fresh noise, sort, filter, paginate.
\* feedResp keeps the request beside the response.
FeedRequest(u, page, limit, lastSourceId, sourceId) ==
    /\ feedResp = {}
    /\ LET rows == Candidates(u, sourceId)
       IN  \E noise \in [rows -> NoiseVals] :
             \E scoredMedia \in RankedOrders(rows, noise, now) :
               feedResp' =
                 {[userId |-> u, limit |-> limit, lastSourceId |-> lastSourceId,
                   sourceId |-> sourceId,
                   ranked |-> [i \in 1..Len(scoredMedia) |-> scoredMedia[i].id],
                   filtered |-> DiversityFilter(scoredMedia, Len(scoredMedia),
                                                lastSourceId, <<>>),
                   data |-> generatePaginatedFeed(scoredMedia, page, limit, lastSourceId)]}
    /\ UNCHANGED <<toggleVars, scanVars, sweepVars, batchVars, identityVars, storeVars, now, opCount, fsVars, indexVars, scoreVars, watcherVars, integrityVars, thumbVars>>

\* the response has been sent
FeedDeliver ==
    /\ feedResp # {}
    /\ feedResp' = {}
    /\ UNCHANGED <<toggleVars, scanVars, sweepVars, batchVars, identityVars, storeVars, now, opCount, fsVars, indexVars, scoreVars, watcherVars, integrityVars, thumbVars>>

----------------------------------------------------------------------------
(* The filesystem, changed from outside the program *)

TopA == Join(Root, "A")
TopB == Join(Root, "B")

FileA1 == Join(TopA, "1.jpg")
FileA2 == Join(TopA, "2.jpg")
FileB1 == Join(TopB, "1.jpg")
FileR == Join(Root, "r.jpg")

ParentDir(p) == SubSeq(p, 1, Len(p) - 1)

FsAdd(f) ==
    /\ fsOps < MaxFsOps
    /\ f \notin fsFiles
    /\ ParentDir(f) \in fsDirs \cup {Root}
    /\ fsFiles' = fsFiles \cup {f}
    /\ fsOps' = fsOps + 1
    /\ lastRun' = {}
    /\ UNCHANGED <<toggleVars, scanVars, sweepVars, batchVars, identityVars, storeVars, feedVars, fsDirs, idx, runCount, scoreVars, watcherVars, integrityVars, thumbVars>>

FsRemove(f) ==
    /\ fsOps < MaxFsOps
    /\ f \in fsFiles
    /\ fsFiles' = fsFiles \ {f}
    /\ fsOps' = fsOps + 1
    /\ lastRun' = {}
    /\ UNCHANGED <<toggleVars, scanVars, sweepVars, batchVars, identityVars, storeVars, feedVars, fsDirs, idx, runCount, scoreVars, watcherVars, integrityVars, thumbVars>>

\* a directory loses its read permission
FsDeny(d) ==
    /\ fsOps < MaxFsOps
    /\ d \in (fsDirs \cup {Root}) \ fsDenied
    /\ fsDenied' = fsDenied \cup {d}
    /\ fsOps' = fsOps + 1
    /\ lastRun' = {}
    /\ UNCHANGED <<toggleVars, sweepVars, batchVars, identityVars, storeVars, feedVars, fsFiles, fsDirs, idx, runCount, scoreVars, watcherVars, integrityVars, thumbVars>>

----------------------------------------------------------------------------
(* POST /api/index: generateSources, then indexMediaFiles.  The requests   *)
(* of this model ask for enableWatcher = false.                            *)

IndexReqs == {"r1", "r2"}

IdleReq ==
    [pc |-> "idle", userId |-> {}, after |-> {}, scanned |-> {}, denied |-> {},
     listable |-> {}, res |-> {}]

PathsOf(tbl) == {m.path : m \in tbl}

\* the handler is entered: nothing in the code refuses a request while
\* another one is being served
IndexStart(r, u) ==
    /\ idx[r].pc \in {"idle", "done"}
    /\ runCount < MaxRuns
    /\ runCount' = runCount + 1
    /\ idx' = [idx EXCEPT ![r] = [IdleReq EXCEPT !.pc = "sources", !.userId = {u},
                                                !.after = lastRun]]
    /\ UNCHANGED <<toggleVars, scanVars, sweepVars, batchVars, identityVars, storeVars, feedVars, fsVars, lastRun, scoreVars, watcherVars, integrityVars, thumbVars>>

\* the directories getTopLevelFolders sees: its catch returns [] when the
\* root cannot be listed
ListedDirs(dirs, denied) == IF Root \in denied THEN {} ELSE dirs

\* await generateSources(db, rootFolder, userId)
IndexSources(r) ==
    /\ idx[r].pc = "sources"
    /\ sources' = SourcesAfterGenerate(Root, ListedDirs(fsDirs, fsDenied), sources, now)
    /\ userFolders' = GrantsAfterGenerate(Root, ListedDirs(fsDirs, fsDenied),
                                          idx[r].userId, userFolders)
    /\ idx' = [idx EXCEPT ![r].pc = "scan"]
    /\ UNCHANGED <<toggleVars, scanVars, sweepVars, batchVars, identityVars, hiddenFolders, media, interactions, feedVars, fsVars, runCount, lastRun, scoreVars, watcherVars, integrityVars, thumbVars>>

\* history: the supported files in the directories that can be listed
ListablePaths(files, denied) ==
    {f \in files : /\ IsUnder(f, Root) /\ ~HasHiddenSegment(f, Root)
                   /\ getMediaType(f) # {}
                   /\ \A i \in Len(Root)..(Len(f) - 1) : SubSeq(f, 1, i) \notin denied}

\* await scanDirectory(rootFolder, rootFolder, mediaFiles)
IndexScan(r) ==
    /\ idx[r].pc = "scan"
    /\ idx' = [idx EXCEPT ![r].pc = "diff",
                          ![r].scanned = scanDirectory(Root, Reachable(fsFiles, fsDenied)),
                          ![r].denied = fsDenied,
                          ![r].listable = ListablePaths(fsFiles, fsDenied)]
    /\ UNCHANGED <<toggleVars, scanVars, sweepVars, batchVars, identityVars, storeVars, feedVars, fsVars, runCount, lastRun, scoreVars, watcherVars, integrityVars, thumbVars>>

\* the rest of indexMediaFiles, which runs without a further await: the
\* diff, the deletes, the inserts and the result (or the 500 of the catch)
IndexDiff(r) ==
    /\ idx[r].pc = "diff"
    /\ \E mediaFiles \in Perms(idx[r].scanned), existingMedia \in Perms(PathsOf(media)) :
         LET out == indexMediaFiles(mediaFiles, existingMedia, media, sources,
                                    interactions, now)
             res == [status |-> out.status,
                     totalScanned |-> out.totalScanned,
                     newFiles |-> out.newFiles,
                     removedFiles |-> out.removedFiles,
                     stored |-> PathsOf(media),
                     scanned |-> PathsOf(idx[r].scanned),
                     denied |-> idx[r].denied,
                     listable |-> idx[r].listable,
                     after |-> PathsOf(out.media),
                     inserted |-> PathsOf(out.media) \ PathsOf(media),
                     deleted |-> PathsOf(media) \ PathsOf(out.media),
                     prev |-> IF idx[r].after = lastRun THEN lastRun ELSE {}]
         IN  /\ media' = out.media
             /\ idx' = [idx EXCEPT ![r].pc = "done", ![r].res = {res}]
             /\ lastRun' = {[n |-> runCount, scanned |-> PathsOf(idx[r].scanned),
                             media |-> out.media]}
    /\ UNCHANGED <<toggleVars, scanVars, sweepVars, batchVars, identityVars, hiddenFolders, sources, userFolders, interactions, feedVars, fsVars, runCount, scoreVars, watcherVars, integrityVars, thumbVars>>

-----------------------------------------------------------------------------
(* The file watcher: startWatcher, stopWatcher, debounceSourceRegeneration  *)
(* and the event handlers.  A watcher created by chokidar.watch is an open  *)
(* subscription until the promise of its close() settles.  Every call gets  *)
(* a number, which names the watcher or the timer it creates.  The clock    *)
(* of the timers counts seconds; a timer fires when it is due.              *)

\* a start or stop call may reset the timer: the history notes the call
WatcherUnchangedByCall == UNCHANGED <<wNow, lastDirEvent, regens, lastFsEvent>>

\* stopWatcher() up to its first suspension: with a watcher set it calls
\* watcher.close() and waits; with none it goes on to clear the timer
stopWatcherCall(w, stops, timer, armed, n) ==
    IF w # {}
    THEN [pendingStops |-> stops \cup {[n |-> n, closing |-> TheOne(w)]},
          debounceTimer |-> timer, armedTimers |-> armed]
    ELSE [pendingStops |-> stops, debounceTimer |-> {}, armedTimers |-> armed \ timer]

\* startWatcher(options): stopWatcher() is called and not awaited, then the
\* new watcher is created and assigned
StartWatcher ==
    /\ wIds < MaxWatcherOps
    /\ LET n == wIds + 1
           s == stopWatcherCall(watcher, pendingStops, debounceTimer, armedTimers, n)
       IN  /\ pendingStops' = s.pendingStops
           /\ debounceTimer' = s.debounceTimer
           /\ armedTimers' = s.armedTimers
           /\ watcher' = {n}
           /\ openSubs' = openSubs \cup {n}
           /\ wIds' = n
    /\ stopCalled' = TRUE
    /\ WatcherUnchangedByCall
    /\ UNCHANGED <<toggleVars, scanVars, sweepVars, batchVars, identityVars, storeVars, feedVars, fsVars, indexVars, scoreVars, integrityVars, thumbVars>>

\* a call of stopWatcher() from outside (POST /api/index/stop-watcher)
StopWatcher ==
    /\ wIds < MaxWatcherOps
    /\ LET n == wIds + 1
           s == stopWatcherCall(watcher, pendingStops, debounceTimer, armedTimers, n)
       IN  /\ pendingStops' = s.pendingStops
           /\ debounceTimer' = s.debounceTimer
           /\ armedTimers' = s.armedTimers
           /\ wIds' = n
    /\ stopCalled' = TRUE
    /\ WatcherUnchangedByCall
    /\ UNCHANGED <<watcher, openSubs>>
    /\ UNCHANGED <<toggleVars, scanVars, sweepVars, batchVars, identityVars, storeVars, feedVars, fsVars, indexVars, scoreVars, integrityVars, thumbVars>>

\* stopWatcher() after await watcher.close(): the closed watcher is gone,
\* the module variable is set to null, the timer is cleared
StopWatcherResume(p) ==
    /\ p \in pendingStops
    /\ pendingStops' = pendingStops \ {p}
    /\ openSubs' = openSubs \ {p.closing}
    /\ watcher' = {}
    /\ armedTimers' = armedTimers \ debounceTimer
    /\ debounceTimer' = {}
    /\ UNCHANGED <<wIds, stopCalled>>
    /\ WatcherUnchangedByCall
    /\ UNCHANGED <<toggleVars, scanVars, sweepVars, batchVars, identityVars, storeVars, feedVars, fsVars, indexVars, scoreVars, integrityVars, thumbVars>>

\* the directories an addDir event may report
EventDirs == {TopA, TopB, Join(TopA, "sub")}

\* watcher.on('addDir'): a new top-level directory restarts the debounce timer
OnAddDir(w, dirPath) ==
    /\ w \in openSubs
    /\ wIds < MaxWatcherOps
    /\ LET parts == RelativeParts(dirPath, Root)
           timer == [n |-> wIds + 1, due |-> wNow + DebounceDelay, by |-> w]
       IN  IF Len(parts) = 1 /\ parts[1] # "."
           THEN /\ armedTimers' = (armedTimers \ debounceTimer) \cup {timer}
                /\ debounceTimer' = {timer}
                /\ lastDirEvent' = {wNow}
                /\ stopCalled' = FALSE
           ELSE UNCHANGED <<armedTimers, debounceTimer, lastDirEvent, stopCalled>>
    /\ wIds' = wIds + 1
    /\ UNCHANGED <<watcher, openSubs, pendingStops, wNow, regens, lastFsEvent>>
    /\ UNCHANGED <<toggleVars, scanVars, sweepVars, batchVars, identityVars, storeVars, feedVars, fsVars, indexVars, scoreVars, integrityVars, thumbVars>>

\* the timer's callback, 3000 ms after it was set: generateSources(db, rootFolder)
DebounceFire(t) ==
    /\ t \in armedTimers
    /\ t.due <= wNow
    /\ armedTimers' = armedTimers \ {t}
    /\ sources' = SourcesAfterGenerate(Root, fsDirs, sources, now)
    /\ userFolders' = GrantsAfterGenerate(Root, fsDirs, {}, userFolders)
    /\ regens' = regens \cup {[n |-> Cardinality(regens) + 1, at |-> wNow,
                              lastEvent |-> lastDirEvent]}
    /\ UNCHANGED <<watcher, openSubs, pendingStops, debounceTimer, wIds, wNow,
                   lastDirEvent, stopCalled, lastFsEvent>>
    /\ UNCHANGED <<toggleVars, scanVars, sweepVars, batchVars, identityVars, hiddenFolders, media, interactions, feedVars, fsVars, indexVars, scoreVars, integrityVars, thumbVars>>

\* a second passes; a due timer fires before the clock moves on
WatcherTick ==
    /\ wNow < MaxWatcherTime
    /\ \A t \in armedTimers : t.due > wNow
    /\ wNow' = wNow + 1
    /\ UNCHANGED <<watcher, openSubs, pendingStops, debounceTimer, armedTimers, wIds,
                   lastDirEvent, stopCalled, regens, lastFsEvent>>
    /\ UNCHANGED <<toggleVars, scanVars, sweepVars, batchVars, identityVars, storeVars, feedVars, fsVars, indexVars, scoreVars, integrityVars, thumbVars>>

\* the files an add or unlink event may report: the option ignored of
\* chokidar.watch keeps the hidden ones out
EventFiles == {FileA1, FileA2, FileB1, FileR, Join(TopA, "n.txt")}

\* watcher.on('add'): classify the file and insert its record
OnAdd(w, filePath) ==
    /\ w \in openSubs
    /\ wIds < MaxWatcherOps
    /\ wIds' = wIds + 1
    /\ IF getMediaType(filePath) = {} \/ getSourceFolder(filePath, Root) = {}
       THEN /\ lastFsEvent' = {[kind |-> "add", path |-> filePath, outcome |-> "skipped"]}
            /\ UNCHANGED media
       ELSE LET f == [id |-> generateFileId(filePath), path |-> filePath,
                      sourceId |-> generateSourceId(TheOne(getSourceFolder(filePath, Root))),
                      depth |-> getFileDepth(filePath, Root),
                      type |-> TheOne(getMediaType(filePath))]
                out == InsertMediaOutcome(f, media, sources)
            IN  /\ media' = IF out = "inserted" THEN media \cup {MediaRow(f, now)} ELSE media
                /\ lastFsEvent' = {[kind |-> "add", path |-> filePath, outcome |-> out]}
    /\ UNCHANGED <<watcher, openSubs, pendingStops, debounceTimer, armedTimers, wNow,
                   lastDirEvent, stopCalled, regens>>
    /\ UNCHANGED <<toggleVars, scanVars, sweepVars, batchVars, identityVars, hiddenFolders, sources, userFolders, interactions, feedVars, fsVars, indexVars, scoreVars, integrityVars, thumbVars>>

\* watcher.on('unlink'): DELETE FROM media WHERE path = ?
OnUnlink(w, filePath) ==
    /\ w \in openSubs
    /\ wIds < MaxWatcherOps
    /\ wIds' = wIds + 1
    /\ IF getMediaType(filePath) = {}
       THEN /\ lastFsEvent' = {[kind |-> "unlink", path |-> filePath, outcome |-> "skipped"]}
            /\ UNCHANGED media
       ELSE LET out == RunDeletes(<<filePath>>, media, interactions)
            IN  /\ media' = out.media
                /\ lastFsEvent' = {[kind |-> "unlink", path |-> filePath,
                                    outcome |-> IF out.ok THEN "deleted" ELSE "throws"]}
    /\ UNCHANGED <<watcher, openSubs, pendingStops, debounceTimer, armedTimers, wNow,
                   lastDirEvent, stopCalled, regens>>
    /\ UNCHANGED <<toggleVars, scanVars, sweepVars, batchVars, identityVars, hiddenFolders, sources, userFolders, interactions, feedVars, fsVars, indexVars, scoreVars, integrityVars, thumbVars>>

\* isWatcherActive(): watcher !== null
isWatcherActive == watcher # {}

\* watcher.on('error'): console.error, nothing else; the event notes how
\* many errors in a row the subscriptions have reported
OnError(w) ==
    /\ w \in openSubs
    /\ wIds < MaxWatcherOps
    /\ wIds' = wIds + 1
    /\ LET before == {e \in lastFsEvent : e.kind = "error"}
       IN  lastFsEvent' = {[kind |-> "error", path |-> Root, outcome |-> "logged",
                            count |-> IF before = {} THEN 1 ELSE TheOne(before).count + 1]}
    /\ UNCHANGED <<watcher, openSubs, pendingStops, debounceTimer, armedTimers, wNow,
                   lastDirEvent, stopCalled, regens>>
    /\ UNCHANGED <<toggleVars, scanVars, sweepVars, batchVars, identityVars, storeVars, feedVars, fsVars, indexVars, scoreVars, integrityVars, thumbVars>>

\* FOREIGN KEY (source_id) REFERENCES sources(id) of media, user_folders,
\* user_interactions and user_hidden_folders
SourceReferenced(id) ==
    \/ \E m \in media : m.sourceId = id
    \/ \E g \in userFolders : g.sourceId = id
    \/ \E k \in DOMAIN interactions : k[2] = id
    \/ \E h \in hiddenFolders : h.sourceId = id

\* watcher.on('unlinkDir') for a directory that has gone from the disk:
\* DELETE FROM sources WHERE id = ?, then DELETE FROM media WHERE
\* source_id = ?.  The first statement throws while a row references the
\* source, and the second is not reached; when it does not throw, no media
\* row of the source is left to delete.
OnUnlinkDir(w, dirPath) ==
    /\ w \in openSubs
    /\ wIds < MaxWatcherOps
    /\ wIds' = wIds + 1
    /\ fsDirs' = {d \in fsDirs : d # dirPath /\ ~IsUnder(d, dirPath)}
    /\ fsFiles' = {f \in fsFiles : ~IsUnder(f, dirPath)}
    /\ LET parts == RelativeParts(dirPath, Root)
           sourceId == generateSourceId(dirPath)
           ev(out) == [kind |-> "unlinkDir", path |-> dirPath, outcome |-> out,
                       at |-> wNow, timerBefore |-> debounceTimer]
       IN  IF Len(parts) = 1 /\ parts[1] # "."
           THEN IF SourceReferenced(sourceId)
                THEN /\ UNCHANGED sources
                     /\ lastFsEvent' = {ev("throws")}
                ELSE /\ sources' = {x \in sources : x.id # sourceId}
                     /\ lastFsEvent' = {ev(IF \E x \in sources : x.id = sourceId
                                           THEN "deleted" ELSE "none")}
           ELSE /\ UNCHANGED sources
                /\ lastFsEvent' = {ev("skipped")}
    /\ UNCHANGED <<watcher, openSubs, pendingStops, debounceTimer, armedTimers, wNow,
                   lastDirEvent, stopCalled, regens>>
    /\ UNCHANGED <<toggleVars, scanVars, sweepVars, batchVars, identityVars, hiddenFolders, media, userFolders, interactions, feedVars, fsOps, indexVars, scoreVars, integrityVars, thumbVars>>

-----------------------------------------------------------------------------
(* FileIntegrityService.checkIntegrity and POST /api/admin/integrity/check. *)
(* A call runs to its first await fs.stat in one step, then one step per    *)
(* stat; the deletes and the finally block follow the last stat at once.    *)

ChkCallers == {"k1", "k2"}
ChkVias == {"route", "method"}
InProgress == "Integrity check already in progress"

IdleChk ==
    [pc |-> "idle", via |-> "method", todo |-> <<>>, total |-> 0, stats |-> 0,
     validFiles |-> 0, deletedIds |-> <<>>, during |-> {}, res |-> {}]

\* the entry checks without the flag
IntegrityEntry_NoFlag(via, running) == "entered"

\* the route's isCheckRunning() test (409) and the method's own test (throw)
IntegrityEntry(via, running) ==
    IF running THEN (IF via = "route" THEN "409" ELSE "threw") ELSE "entered"

\* DELETE FROM media WHERE id = ?, run for each id in turn
RECURSIVE RunDeletesById(_, _, _)
RunDeletesById(ids, tbl, inter) ==
    IF ids = <<>> THEN [media |-> tbl, ok |-> TRUE]
    ELSE IF MediaReferenced(Head(ids), inter)
         THEN [media |-> tbl, ok |-> FALSE]
         ELSE RunDeletesById(Tail(ids), {m \in tbl : m.id # Head(ids)}, inter)

\* a flag that is cleared at the return only
RunningAfterCheck_ReturnOnly(ok) == ~ok

\* finally { this.isRunning = false }: after a return and after a throw
RunningAfterCheck(ok) == FALSE

\* from the end of the stat loop to the end of the call
CheckFinish(c, validFiles, deletedIds) ==
    LET out == RunDeletesById(deletedIds, media, interactions)
        res == [status |-> IF out.ok THEN "returned" ELSE "threw",
                error |-> IF out.ok THEN "" ELSE "FOREIGN KEY constraint failed",
                totalMedia |-> chk[c].total,
                validFiles |-> validFiles,
                missingFiles |-> Len(deletedIds),
                deletedIds |-> deletedIds,
                deleted |-> MediaIdsOf(media) \ MediaIdsOf(out.media)]
    IN  /\ media' = out.media
        /\ isRunning' = RunningAfterCheck(out.ok)
        /\ lastCheckTime' = now
        /\ chk' = [chk EXCEPT ![c].pc = "done", ![c].todo = <<>>,
                              ![c].stats = chk[c].stats + 1,
                              ![c].validFiles = validFiles,
                              ![c].deletedIds = deletedIds, ![c].res = {res}]

\* a call of checkIntegrity(), through the route or directly
CheckCall(c, via) ==
    /\ chk[c].pc \in {"idle", "done"}
    /\ chkCalls < MaxChecks
    /\ chkCalls' = chkCalls + 1
    /\ LET during == {d \in ChkCallers \ {c} : chk[d].pc = "stat"}
           entry == IntegrityEntry(via, isRunning)
           call == [IdleChk EXCEPT !.via = via, !.during = during]
       IN  IF entry # "entered"
           THEN /\ chk' = [chk EXCEPT ![c] =
                             [call EXCEPT !.pc = "done",
                                          !.res = {[status |-> entry, error |-> InProgress,
                                                    totalMedia |-> 0, validFiles |-> 0,
                                                    missingFiles |-> 0, deletedIds |-> <<>>,
                                                    deleted |-> {}]}]]
                /\ UNCHANGED <<media, isRunning, lastCheckTime>>
           ELSE \E allMedia \in Perms(media) :
                  IF allMedia = <<>>
                  THEN /\ chk' = [chk EXCEPT ![c] =
                                    [call EXCEPT !.pc = "done",
                                                 !.res = {[status |-> "returned", error |-> "",
                                                           totalMedia |-> 0, validFiles |-> 0,
                                                           missingFiles |-> 0,
                                                           deletedIds |-> <<>>,
                                                           deleted |-> {}]}]]
                       /\ isRunning' = FALSE
                       /\ lastCheckTime' = now
                       /\ UNCHANGED media
                  ELSE /\ chk' = [chk EXCEPT ![c] =
                                    [call EXCEPT !.pc = "stat", !.todo = allMedia,
                                                 !.total = Len(allMedia)]]
                       /\ isRunning' = TRUE
                       /\ UNCHANGED <<media, lastCheckTime>>
    /\ UNCHANGED <<toggleVars, scanVars, sweepVars, batchVars, identityVars, hiddenFolders, sources, userFolders, interactions, feedVars, fsVars, indexVars, scoreVars, watcherVars, thumbVars>>

\* await fs.stat(media.path) for the next record, and what follows it
CheckStat(c) ==
    /\ chk[c].pc = "stat"
    /\ LET m == Head(chk[c].todo)
           isFile == m.path \in fsFiles
           validFiles == chk[c].validFiles + (IF isFile THEN 1 ELSE 0)
           deletedIds == IF isFile THEN chk[c].deletedIds
                         ELSE Append(chk[c].deletedIds, m.id)
       IN  IF Tail(chk[c].todo) # <<>>
           THEN /\ chk' = [chk EXCEPT ![c].todo = Tail(chk[c].todo),
                                      ![c].stats = chk[c].stats + 1,
                                      ![c].validFiles = validFiles,
                                      ![c].deletedIds = deletedIds]
                /\ UNCHANGED <<media, isRunning, lastCheckTime>>
           ELSE CheckFinish(c, validFiles, deletedIds)
    /\ UNCHANGED chkCalls
    /\ UNCHANGED <<toggleVars, scanVars, sweepVars, batchVars, identityVars, hiddenFolders, sources, userFolders, interactions, feedVars, fsVars, indexVars, scoreVars, watcherVars, thumbVars>>

-----------------------------------------------------------------------------
(* ThumbnailService.getThumbnail for one media file.  A call takes one step *)
(* per await.  The file system stamps every change of the file with a new   *)
(* mtime.                                                                   *)

ThCallers == {"t1", "t2"}
ThumbMediaPath == FileA1
ThumbMediaId == generateFileId(ThumbMediaPath)
ThumbMediaType == TheOne(getMediaType(ThumbMediaPath))
FileSizes == {1, 2}

\* a fingerprint that ignores the modification time
getFileHash_SizeOnly(stats) == <<stats.size, "-">>

\* getFileHash: `${stats.size}-${stats.mtimeMs}`
getFileHash(stats) == <<stats.size, "-", stats.mtimeMs>>

\* path.join(this.thumbnailDir, `${mediaId}.webp`)
getThumbnailPath(mediaId) == <<".thumbnails", <<mediaId, ".webp">>>>

IdleTh ==
    [pc |-> "idle", cached |-> {}, attempted |-> FALSE, generated |-> FALSE,
     stored |-> {}, hashed |-> {}, prev |-> {}, alone |-> TRUE, srcAtCall |-> {},
     startClock |-> 0, endClock |-> 0, res |-> {}]

\* the call ends with a return
ThumbReturn(c, p) ==
    /\ th' = [th EXCEPT ![c].pc = "done", ![c].endClock = fsClock,
                        ![c].res = {[status |-> "returned", path |-> p]}]
    /\ lastOk' = {[by |-> c, start |-> th[c].startClock, end |-> fsClock,
                   path |-> p, src |-> srcStat]}

\* the call ends with an exception
ThumbThrow(c) ==
    /\ th' = [th EXCEPT ![c].pc = "done", ![c].endClock = fsClock,
                        ![c].res = {[status |-> "threw", path |-> <<>>]}]
    /\ UNCHANGED lastOk

\* getThumbnail(mediaId, mediaPath, mediaType) up to its first await
ThumbCall(c) ==
    /\ th[c].pc \in {"idle", "done"}
    /\ thCalls + fsClock < MaxThumbOps
    /\ thCalls' = thCalls + 1
    /\ LET cached == cache[ThumbMediaId]
       IN  th' = [th EXCEPT ![c] =
                    [IdleTh EXCEPT !.pc = IF cached # {} THEN "hash" ELSE "generate",
                                   !.cached = cached,
                                   !.prev = lastOk,
                                   !.alone = \A d \in ThCallers \ {c} :
                                                th[d].pc \in {"idle", "done"},
                                   !.srcAtCall = srcStat,
                                   !.startClock = fsClock]]
    /\ UNCHANGED <<cache, cacheFile, thumbFiles, srcStat, fsClock, lastOk>>
    /\ UNCHANGED <<toggleVars, scanVars, sweepVars, batchVars, identityVars, storeVars, feedVars, fsVars, indexVars, scoreVars, watcherVars, integrityVars>>

\* await this.getFileHash(mediaPath) against the cached entry
ThumbHash(c) ==
    /\ th[c].pc = "hash"
    /\ IF srcStat = {}
       THEN /\ cache' = [cache EXCEPT ![ThumbMediaId] = {}]
            /\ th' = [th EXCEPT ![c].pc = "generate"]
       ELSE /\ th' = [th EXCEPT ![c].pc =
                        IF TheOne(th[c].cached).hash = getFileHash(TheOne(srcStat))
                        THEN "access" ELSE "generate"]
            /\ UNCHANGED cache
    /\ UNCHANGED <<cacheFile, thumbFiles, srcStat, fsClock, lastOk, thCalls>>
    /\ UNCHANGED <<toggleVars, scanVars, sweepVars, batchVars, identityVars, storeVars, feedVars, fsVars, indexVars, scoreVars, watcherVars, integrityVars>>

\* await fs.access(cached.path); return cached.path
ThumbAccess(c) ==
    /\ th[c].pc = "access"
    /\ IF TheOne(th[c].cached).path \in thumbFiles
       THEN /\ ThumbReturn(c, TheOne(th[c].cached).path)
            /\ UNCHANGED cache
       ELSE /\ cache' = [cache EXCEPT ![ThumbMediaId] = {}]
            /\ th' = [th EXCEPT ![c].pc = "generate"]
            /\ UNCHANGED lastOk
    /\ UNCHANGED <<cacheFile, thumbFiles, srcStat, fsClock, thCalls>>
    /\ UNCHANGED <<toggleVars, scanVars, sweepVars, batchVars, identityVars, storeVars, feedVars, fsVars, indexVars, scoreVars, watcherVars, integrityVars>>

\* await this.generateImageThumbnail(mediaPath, thumbnailPath): fails on a
\* missing file, and may fail on a file the decoder cannot read
ThumbGenerate(c) ==
    /\ th[c].pc = "generate"
    /\ \E readable \in BOOLEAN :
         IF srcStat # {} /\ readable
         THEN /\ thumbFiles' = thumbFiles \cup {getThumbnailPath(ThumbMediaId)}
              /\ th' = [th EXCEPT ![c].pc = "hash2", ![c].attempted = TRUE,
                                  ![c].generated = TRUE]
              /\ UNCHANGED lastOk
         ELSE /\ th' = [th EXCEPT ![c].pc = "done", ![c].attempted = TRUE,
                                  ![c].endClock = fsClock,
                                  ![c].res = {[status |-> "threw", path |-> <<>>]}]
              /\ UNCHANGED <<thumbFiles, lastOk>>
    /\ UNCHANGED <<cache, cacheFile, srcStat, fsClock, thCalls>>
    /\ UNCHANGED <<toggleVars, scanVars, sweepVars, batchVars, identityVars, storeVars, feedVars, fsVars, indexVars, scoreVars, watcherVars, integrityVars>>

\* const hash = await this.getFileHash(mediaPath); this.cache.set(...)
ThumbHashAfter(c) ==
    /\ th[c].pc = "hash2"
    /\ IF srcStat = {}
       THEN /\ ThumbThrow(c)
            /\ UNCHANGED cache
       ELSE LET cacheEntry == [mediaId |-> ThumbMediaId,
                               path |-> getThumbnailPath(ThumbMediaId),
                               type |-> ThumbMediaType,
                               generatedAt |-> now,
                               hash |-> getFileHash(TheOne(srcStat))]
            IN  /\ cache' = [cache EXCEPT ![ThumbMediaId] = {cacheEntry}]
                /\ th' = [th EXCEPT ![c].pc = "save", ![c].stored = {cacheEntry},
                                    ![c].hashed = srcStat]
                /\ UNCHANGED lastOk
    /\ UNCHANGED <<cacheFile, thumbFiles, srcStat, fsClock, thCalls>>
    /\ UNCHANGED <<toggleVars, scanVars, sweepVars, batchVars, identityVars, storeVars, feedVars, fsVars, indexVars, scoreVars, watcherVars, integrityVars>>

\* await this.saveCache(), which swallows a failed write; return thumbnailPath
ThumbSave(c) ==
    /\ th[c].pc = "save"
    /\ \E written \in BOOLEAN :
         cacheFile' = IF written THEN th[c].stored ELSE cacheFile
    /\ ThumbReturn(c, getThumbnailPath(ThumbMediaId))
    /\ UNCHANGED <<cache, thumbFiles, srcStat, fsClock, thCalls>>
    /\ UNCHANGED <<toggleVars, scanVars, sweepVars, batchVars, identityVars, storeVars, feedVars, fsVars, indexVars, scoreVars, watcherVars, integrityVars>>

\* the media file is written: its size may change, its mtime does
FileModify(size) ==
    /\ srcStat # {}
    /\ thCalls + fsClock < MaxThumbOps
    /\ fsClock' = fsClock + 1
    /\ srcStat' = {[size |-> size, mtimeMs |-> fsClock + 1]}
    /\ UNCHANGED <<cache, cacheFile, thumbFiles, lastOk, th, thCalls>>
    /\ UNCHANGED <<toggleVars, scanVars, sweepVars, batchVars, identityVars, storeVars, feedVars, fsVars, indexVars, scoreVars, watcherVars, integrityVars>>

\* the media file is deleted
FileDelete ==
    /\ srcStat # {}
    /\ thCalls + fsClock < MaxThumbOps
    /\ fsClock' = fsClock + 1
    /\ srcStat' = {}
    /\ UNCHANGED <<cache, cacheFile, thumbFiles, lastOk, th, thCalls>>
    /\ UNCHANGED <<toggleVars, scanVars, sweepVars, batchVars, identityVars, storeVars, feedVars, fsVars, indexVars, scoreVars, watcherVars, integrityVars>>

\* a file is created at the media path
FileCreate(size) ==
    /\ srcStat = {}
    /\ thCalls + fsClock < MaxThumbOps
    /\ fsClock' = fsClock + 1
    /\ srcStat' = {[size |-> size, mtimeMs |-> fsClock + 1]}
    /\ UNCHANGED <<cache, cacheFile, thumbFiles, lastOk, th, thCalls>>
    /\ UNCHANGED <<toggleVars, scanVars, sweepVars, batchVars, identityVars, storeVars, feedVars, fsVars, indexVars, scoreVars, watcherVars, integrityVars>>

\* a thumbnail artifact is removed from the thumbnail directory
ArtifactRemove(p) ==
    /\ p \in thumbFiles
    /\ thCalls + fsClock < MaxThumbOps
    /\ fsClock' = fsClock + 1
    /\ thumbFiles' = thumbFiles \ {p}
    /\ UNCHANGED <<cache, cacheFile, srcStat, lastOk, th, thCalls>>
    /\ UNCHANGED <<toggleVars, scanVars, sweepVars, batchVars, identityVars, storeVars, feedVars, fsVars, indexVars, scoreVars, watcherVars, integrityVars>>

----------------------------------------------------------------------------
(* Initial conditions of the parts *)

FeedIdle == now = 0 /\ opCount = 0 /\ feedResp = {}

IndexIdle == idx = [r \in IndexReqs |-> IdleReq] /\ runCount = 0 /\ lastRun = {}

ScoreIdle == cmp = {}

WatcherIdle ==
    /\ watcher = {} /\ openSubs = {} /\ pendingStops = {}
    /\ debounceTimer = {} /\ armedTimers = {} /\ wIds = 0
    /\ wNow = 0 /\ lastDirEvent = {} /\ stopCalled = FALSE /\ regens = {}
    /\ lastFsEvent = {}

IntegrityIdle ==
    /\ isRunning = FALSE /\ lastCheckTime = 0
    /\ chk = [c \in ChkCallers |-> IdleChk] /\ chkCalls = 0

ThumbIdle ==
    /\ cache = [i \in {ThumbMediaId} |-> {}] /\ cacheFile = {} /\ thumbFiles = {}
    /\ srcStat = {} /\ fsClock = 0 /\ lastOk = {}
    /\ th = [c \in ThCallers |-> IdleTh] /\ thCalls = 0

ToggleIdle == applied = <<>>

ScanIdle == fsDenied = {}

SweepIdle == cleanup = {}

NoBatch == [status |-> "none", ids |-> <<>>, results |-> <<>>, genBefore |-> <<>>]
BatchIdle == batchReq = NoBatch /\ items = <<>> /\ genCount = <<>> /\ batches = 0

IdentityIdle == identities = {} /\ proc = 0

\* the example library: /root/A/1.jpg, /root/A/2.jpg, /root/B/1.jpg
ExampleFiles == {FileA1, FileA2, FileB1}

\* the store after user u1 has indexed the example library at time 0
ExampleStore ==
    /\ sources = SourcesAfterGenerate(Root, {TopA, TopB}, {}, 0)
    /\ media = {MediaRow(f, 0) : f \in scanDirectory(Root, ExampleFiles)}
    /\ interactions = <<>> /\ hiddenFolders = {}

----------------------------------------------------------------------------
(* Spec: the feed over the example library.  Users like, save, hide and    *)
(* view media and request feed pages; the second user may or may not have  *)
(* been granted the folders.                                               *)

SourceOpts == {{}} \cup {{generateSourceId(d)} : d \in {TopA, TopB}}

Init ==
    /\ ExampleStore
    /\ \E g \in {{"u1"}, Users} :
         userFolders = {[userId |-> u, sourceId |-> generateSourceId(d)] :
                          u \in g, d \in {TopA, TopB}}
    /\ fsFiles = ExampleFiles /\ fsDirs = {TopA, TopB} /\ fsOps = 0
    /\ FeedIdle
    /\ IndexIdle
    /\ ScoreIdle
    /\ WatcherIdle
    /\ IntegrityIdle
    /\ ThumbIdle
    /\ ToggleIdle
    /\ ScanIdle
    /\ SweepIdle
    /\ BatchIdle
    /\ IdentityIdle

Next ==
    \/ \E u \in Users, m \in media : Like(u, m.sourceId, m.id)
    \/ \E u \in Users, m \in media : Save(u, m.sourceId, m.id)
    \/ \E u \in Users, m \in media : Hide(u, m.sourceId, m.id)
    \/ \E u \in Users, m \in media : View(u, m.sourceId, m.id)
    \/ /\ feedResp = {}
       /\ \E u \in Users, limit \in 0..MaxPageSize, last \in SourceOpts, src \in SourceOpts :
            FeedRequest(u, 0, limit, last, src)
    \/ FeedDeliver

Spec == Init /\ [][Next]_vars

SourceOfMedia(id) == (CHOOSE m \in media : m.id = id).sourceId

\* C1: a feed page holds no two adjacent items of the same source, and when
\* a lastSourceId is given the first item of the page is of another source.
C1_Diversity ==
    \A r \in feedResp :
        /\ \A i \in 1..(Len(r.data.items) - 1) :
              r.data.items[i].sourceId # r.data.items[i + 1].sourceId
        /\ (r.lastSourceId # {} /\ Len(r.data.items) >= 1) =>
              r.data.items[1].sourceId \notin r.lastSourceId

\* a page of two items whose top-ranked row was skipped for its source, and
\* whose first two ranked rows share a source
C1_Witness ==
    \E r \in feedResp :
        /\ r.lastSourceId # {}
        /\ Len(r.data.items) = 2
        /\ Len(r.ranked) = 3
        /\ SourceOfMedia(r.ranked[1]) \in r.lastSourceId
        /\ SourceOfMedia(r.ranked[3]) \in r.lastSourceId

\* the example of the specification: user u1 has liked /root/A/1.jpg and
\* nothing else, and asks for a page of size 2 with no lastSourceId
C10_Scenario(r) ==
    /\ r.userId = "u1" /\ r.limit = 2 /\ r.lastSourceId = {} /\ r.sourceId = {}
    /\ DOMAIN interactions = {<<"u1", generateSourceId(TopA), generateFileId(FileA1)>>}
    /\ interactions[<<"u1", generateSourceId(TopA), generateFileId(FileA1)>>] =
         [NoInteraction EXCEPT !.liked = 1]

\* C10: in the example, the page is /root/A/1.jpg followed by /root/B/1.jpg,
\* whatever the noise.
C10_Example ==
    \A r \in feedResp :
        C10_Scenario(r) =>
            [i \in 1..Len(r.data.items) |-> r.data.items[i].path] = <<FileA1, FileB1>>

\* the example, with /root/A/2.jpg ranked second and skipped
C10_Witness ==
    \E r \in feedResp :
        /\ C10_Scenario(r)
        /\ r.ranked = <<generateFileId(FileA1), generateFileId(FileA2), generateFileId(FileB1)>>

\* C17: a feed page holds the first itemsPerPage items of the diversity-
\* filtered ranking, or all of them when there are fewer, and hasMore is
\* true exactly when the filtered ranking has more than itemsPerPage items
\* (the one extra item the page function fetches).
C17_PageAndHasMore ==
    \A r \in feedResp :
        /\ Len(r.data.items) <= r.limit
        /\ Len(r.data.items) = IF Len(r.filtered) < r.limit THEN Len(r.filtered) ELSE r.limit
        /\ r.data.items = SubSeq(r.filtered, 1, Len(r.data.items))
        /\ r.data.hasMore <=> Len(r.filtered) > r.limit

\* a full page with more to come
C17_Witness ==
    \E r \in feedResp :
        /\ r.limit > 0
        /\ Len(r.data.items) = r.limit
        /\ r.data.hasMore
        /\ Len(r.filtered) > r.limit

\* the candidates of the request, at least one, are all of one source
SingleSource(r) ==
    /\ Len(r.ranked) >= 1
    /\ \A i \in 1..Len(r.ranked) : SourceOfMedia(r.ranked[i]) = SourceOfMedia(r.ranked[1])

\* C38 as stated: when all candidates are of one source, the page holds at
\* most one item and hasMore is false, for every page size; the page is
\* empty when lastSourceId is that source.
C38_SingleSourceOneItem ==
    \A r \in feedResp :
        SingleSource(r) =>
            /\ Len(r.data.items) <= 1
            /\ ~r.data.hasMore
            /\ SourceOfMedia(r.ranked[1]) \in r.lastSourceId => r.data.items = <<>>

\* C38: when all candidates are of one source, a page of size 1 or more
\* holds exactly one item, or none when lastSourceId is that source, and
\* hasMore is false; a page of size 0 is empty and its hasMore is true
\* unless lastSourceId is that source.
C38_SingleSourcePage ==
    \A r \in feedResp :
        SingleSource(r) =>
            LET skipped == SourceOfMedia(r.ranked[1]) \in r.lastSourceId
            IN  IF r.limit >= 1
                THEN /\ Len(r.data.items) = (IF skipped THEN 0 ELSE 1)
                     /\ ~r.data.hasMore
                ELSE /\ r.data.items = <<>>
                     /\ r.data.hasMore <=> ~skipped

\* two candidates of one source and a page size of two: one item is
\* returned and nothing more is announced
C38_Witness ==
    \E r \in feedResp :
        /\ SingleSource(r)
        /\ Len(r.ranked) >= 2
        /\ r.limit = 2
        /\ r.lastSourceId = {}
        /\ Len(r.data.items) = 1
        /\ ~r.data.hasMore

----------------------------------------------------------------------------
(* SpecIndex: index requests over a changing filesystem, from an empty     *)
(* store.  Users view indexed media between the runs.                      *)

IndexFiles == {FileA1, FileB1, FileR}

InitIndex ==
    /\ media = {} /\ sources = {} /\ userFolders = {} /\ interactions = <<>> /\ hiddenFolders = {}
    /\ fsFiles \in SUBSET IndexFiles /\ fsDirs = {TopA, TopB} /\ fsOps = 0
    /\ FeedIdle
    /\ IndexIdle
    /\ ScoreIdle
    /\ WatcherIdle
    /\ IntegrityIdle
    /\ ThumbIdle
    /\ ToggleIdle
    /\ ScanIdle
    /\ SweepIdle
    /\ BatchIdle
    /\ IdentityIdle

NextIndex ==
    \/ \E f \in IndexFiles : FsAdd(f)
    \/ \E f \in IndexFiles : FsRemove(f)
    \/ \E m \in media : View("u1", m.sourceId, m.id)
    \/ \E r \in IndexReqs : IndexStart(r, "u1")
    \/ \E r \in IndexReqs : IndexSources(r)
    \/ \E r \in IndexReqs : IndexScan(r)
    \/ \E r \in IndexReqs : IndexDiff(r)

SpecIndex == InitIndex /\ [][NextIndex]_vars

\* the results of the index runs that have ended, by return or by exception
IndexResults == UNION {idx[r].res : r \in IndexReqs}

\* C2: a run of indexMediaFiles over the stored paths S and the scanned paths
\* T inserts exactly T \ S and deletes exactly S \ T, and leaves T stored.
C2_DiffExact ==
    \A res \in IndexResults :
        /\ res.inserted = res.scanned \ res.stored
        /\ res.deleted = res.stored \ res.scanned
        /\ (res.stored \ res.deleted) \cup res.inserted = res.scanned

\* C3: a run that follows another run on the same root, with no change of
\* the file system in between, counts no new and no removed file and leaves
\* the media table as it was.
C3_SecondRunIdle ==
    \A res \in IndexResults :
        \A prev \in res.prev :
            res.scanned = prev.scanned =>
                /\ res.status = "returned"
                /\ res.newFiles = 0
                /\ res.removedFiles = 0
                /\ res.inserted = {} /\ res.deleted = {}

\* C27: the deletes and inserts of a run are applied as one unit: a run
\* that fails while it deletes or inserts leaves the media table as it
\* was before the run.
C27_DiffAtomic ==
    \A res \in IndexResults :
        res.status = "threw" => res.inserted = {} /\ res.deleted = {}

\* the index requests that have started and not ended
ActiveIndexRuns == {r \in IndexReqs : idx[r].pc \in {"sources", "scan", "diff"}}

\* C6: at most one index run is active at a time; a request that arrives
\* during another run never gets to scan or diff.
C6_OneIndexRun == Cardinality(ActiveIndexRuns) <= 1

\* the paths an index of the disk should hold: the regular files below the
\* root with a supported extension and no dot entry on the way
IndexablePaths ==
    {f \in fsFiles : IsUnder(f, Root) /\ ~HasHiddenSegment(f, Root) /\ getMediaType(f) # {}}

\* C15: when an index run has ended, no other run is active and the disk
\* has not changed, the media table holds a record for exactly the
\* non-hidden supported files below the root, files directly in the root
\* included.
C15_IndexMatchesDisk ==
    \A r \in IndexReqs :
        (idx[r].pc = "done" /\ ActiveIndexRuns = {} /\ fsOps = 0) =>
            PathsOf(media) = IndexablePaths

----------------------------------------------------------------------------
(* SpecScore: step 2 of generateFeed on two rows of one folder, indexed at *)
(* the same time, with every combination of view count, flags and noise.   *)

ViewCounts == 0..MaxViewCount
Depths == 0..MaxDepth
Ages == {0, DecayDays - 1} \cup {DecayDays + k : k \in 0..MaxOverAge}

ScoreRow(id, depth, viewCount, liked, saved) ==
    [id |-> id, sourceId |-> generateSourceId(TopA), depth |-> depth, createdAt |-> 0,
     viewCount |-> viewCount, liked |-> liked, saved |-> saved]

\* the map and the sort of generateFeed on the rows a and b at time t
ScorePair(a, b, na, nb, t) ==
    /\ cmp = {}
    /\ LET noise == (a :> na) @@ (b :> nb)
       IN  \E scoredMedia \in RankedOrders({a, b}, noise, t) :
             cmp' = {[a |-> a, b |-> b, na |-> na, nb |-> nb,
                      scoreA |-> Score(a, na, t), scoreB |-> Score(b, nb, t),
                      first |-> scoredMedia[1].id]}
    /\ UNCHANGED <<toggleVars, scanVars, sweepVars, batchVars, identityVars, storeVars, feedVars, fsVars, indexVars, watcherVars, integrityVars, thumbVars>>

ScoreReset ==
    /\ cmp # {}
    /\ cmp' = {}
    /\ UNCHANGED <<toggleVars, scanVars, sweepVars, batchVars, identityVars, storeVars, feedVars, fsVars, indexVars, watcherVars, integrityVars, thumbVars>>

InitScore ==
    /\ media = {} /\ sources = {} /\ userFolders = {} /\ interactions = <<>> /\ hiddenFolders = {}
    /\ fsFiles = {} /\ fsDirs = {} /\ fsOps = 0
    /\ FeedIdle
    /\ IndexIdle
    /\ ScoreIdle
    /\ WatcherIdle
    /\ IntegrityIdle
    /\ ThumbIdle
    /\ ToggleIdle
    /\ ScanIdle
    /\ SweepIdle
    /\ BatchIdle
    /\ IdentityIdle

NextScore ==
    \/ /\ cmp = {}
       /\ \E d \in Depths, t \in Ages, va, vb \in ViewCounts, la, lb, sa, sb \in {0, 1},
            na, nb \in NoiseVals :
           ScorePair(ScoreRow("a", d, va, la, sa), ScoreRow("b", d, vb, lb, sb), na, nb, t)
    \/ ScoreReset

SpecScore == InitScore /\ [][NextScore]_vars

\* C8: of two rows equal in view count, depth, creation time and the other
\* flag, the liked one scores strictly higher and is sorted first, whatever
\* the two noises; and so for the saved one.
C8_LikeSaveOutrank ==
    \A c \in cmp :
        /\ (c.a.viewCount = c.b.viewCount /\ c.a.saved = c.b.saved
              /\ c.a.liked = 1 /\ c.b.liked = 0)
             => (c.scoreA > c.scoreB /\ c.first = "a")
        /\ (c.a.viewCount = c.b.viewCount /\ c.a.liked = c.b.liked
              /\ c.a.saved = 1 /\ c.b.saved = 0)
             => (c.scoreA > c.scoreB /\ c.first = "a")

\* a saved row with the least noise against an unsaved one with the most
C8_Witness ==
    \E c \in cmp :
        /\ c.a.viewCount = c.b.viewCount /\ c.a.liked = c.b.liked
        /\ c.a.saved = 1 /\ c.b.saved = 0
        /\ c.na = 0 /\ c.nb = NoiseRange - 1
        /\ c.first = "a"

\* C9 as claimed: of two rows equal in flags, depth and creation time, the
\* one with the lower view count is sorted first, whatever the two noises.
C9_LowerViewCountAlwaysFirst ==
    \A c \in cmp :
        (c.a.liked = c.b.liked /\ c.a.saved = c.b.saved /\ c.a.viewCount < c.b.viewCount)
            => (c.scoreA > c.scoreB /\ c.first = "a")

\* C9 as amended: the row with the lower view count is sorted first when it
\* was never viewed, or when the other row's noise exceeds its own by less
\* than ViewPenalty times the difference of the view counts.
C9_LowerViewCountFirstUpToNoise ==
    \A c \in cmp :
        (/\ c.a.liked = c.b.liked /\ c.a.saved = c.b.saved
         /\ c.a.viewCount < c.b.viewCount
         /\ \/ c.a.viewCount = 0
            \/ c.nb - c.na < ViewPenalty * (c.b.viewCount - c.a.viewCount))
            => (c.scoreA > c.scoreB /\ c.first = "a")

\* two viewed rows, the less viewed one with a noise up to ViewPenalty lower
C9_Witness ==
    \E c \in cmp :
        /\ c.a.liked = c.b.liked /\ c.a.saved = c.b.saved
        /\ c.a.viewCount = 1 /\ c.b.viewCount = 2
        /\ c.na = c.nb
        /\ c.first = "a"


-----------------------------------------------------------------------------
(* SpecWatcher: calls of startWatcher and stopWatcher in any order, the     *)
(* suspended stops resuming at any time, and addDir events in between.      *)

\* the store after user u1 has indexed a root that held /root/A/1.jpg; the
\* folder /root/B may have been created since
InitWatcher ==
    /\ sources = SourcesAfterGenerate(Root, {TopA}, {}, 0)
    /\ userFolders = GrantsAfterGenerate(Root, {TopA}, {"u1"}, {})
    /\ media = {MediaRow(f, 0) : f \in scanDirectory(Root, {FileA1})}
    /\ interactions = <<>> /\ hiddenFolders = {}
    /\ fsFiles = {FileA1} /\ fsDirs \in {{TopA}, {TopA, TopB}} /\ fsOps = 0
    /\ FeedIdle
    /\ IndexIdle
    /\ ScoreIdle
    /\ WatcherIdle
    /\ IntegrityIdle
    /\ ThumbIdle
    /\ ToggleIdle
    /\ ScanIdle
    /\ SweepIdle
    /\ BatchIdle
    /\ IdentityIdle

NextWatcher ==
    \/ StartWatcher
    \/ StopWatcher
    \/ \E p \in pendingStops : StopWatcherResume(p)
    \/ \E w \in openSubs, d \in EventDirs : OnAddDir(w, d)
    \/ \E t \in armedTimers : DebounceFire(t)
    \/ WatcherTick
    \/ \E w \in openSubs, f \in EventFiles : OnAdd(w, f)
    \/ \E w \in openSubs, f \in EventFiles : OnUnlink(w, f)
    \/ \E w \in openSubs, d \in EventDirs : OnUnlinkDir(w, d)
    \/ \E w \in openSubs : OnError(w)
    \/ \E m \in media : View("u1", m.sourceId, m.id)

SpecWatcher == InitWatcher /\ [][NextWatcher]_vars

\* C4: once every stopWatcher call has run to its end, at most one
\* filesystem subscription is open, whatever calls of startWatcher and
\* stopWatcher were made.
C4_OneSubscription == pendingStops = {} => Cardinality(openSubs) <= 1

\* the add and unlink events about a file that the handlers classify as media
MediaEvent(e, kind) ==
    /\ e.kind = kind
    /\ getMediaType(e.path) # {}
    /\ IsUnder(e.path, Root)
    /\ ~HasHiddenSegment(e.path, Root)

\* C11: when the add handler has finished for a non-hidden file of a
\* supported type under the root, the media table holds a record for its path.
C11_AddInsertsRecord ==
    \A e \in lastFsEvent :
        MediaEvent(e, "add") => \E m \in media : m.path = e.path

\* C12: when the unlink handler has finished for a path of a supported type,
\* the media table holds no record for that path, whatever interaction rows
\* reference it.
C12_UnlinkRemovesRecord ==
    \A e \in lastFsEvent :
        MediaEvent(e, "unlink") => ~\E m \in media : m.path = e.path

\* C13: the timer's regeneration runs no earlier than the debounce delay
\* after the last top-level addDir event, runs at most once for it, and,
\* with no call of startWatcher or stopWatcher since that event, has run
\* once the delay is over.
C13_DebounceOnce ==
    /\ \A r \in regens : \A e \in r.lastEvent : r.at >= e + DebounceDelay
    /\ \A r1, r2 \in regens : r1.lastEvent = r2.lastEvent => r1 = r2
    /\ \A e \in lastDirEvent :
         (~stopCalled /\ wNow > e + DebounceDelay) =>
             \E r \in regens : r.lastEvent = {e}

\* a directory event for an entry right below the root
TopLevelEvent(e, kind) ==
    /\ e.kind = kind
    /\ Len(RelativeParts(e.path, Root)) = 1

\* C21: when the watcher has handled the removal of a top-level folder, no
\* source row is left for that folder, whatever rows reference the source.
C21_SourceGoneWithFolder ==
    \A e \in lastFsEvent :
        (TopLevelEvent(e, "unlinkDir") /\ e.path \notin fsDirs) =>
            ~\E x \in sources : x.folderPath = e.path

\* C28: the removal of a top-level folder changes no table when it is
\* handled; it sets the debounce timer anew, due one delay after the event.
C28_UnlinkDirDebounced ==
    \A e \in lastFsEvent :
        (TopLevelEvent(e, "unlinkDir") /\ e.at = wNow) =>
            /\ e.outcome # "deleted"
            /\ \E t \in debounceTimer : t.due = e.at + DebounceDelay /\ t \notin e.timerBefore

\* C30: when no stopWatcher call is pending, isWatcherActive() is true
\* exactly when a subscription created by startWatcher is open; so it is
\* true after a startWatcher call that found a watcher running.
C30_ActiveIffSubscribed ==
    pendingStops = {} => (isWatcherActive <=> openSubs # {})

\* C25: an error of the subscription leaves the process running with its
\* tables and subscriptions as they were, and once the subscriptions have
\* reported errors repeatedly the watcher is stopped: isWatcherActive()
\* is false.
C25_RepeatedErrorsStop ==
    \A e \in lastFsEvent :
        (e.kind = "error" /\ e.count >= 2 /\ pendingStops = {}) => ~isWatcherActive

\* no timer set by a closed watcher is armed
NoTimerOfStopped == \A t \in armedTimers : t.by \in openSubs

\* a stopWatcher call of startWatcher that ends in this step leaves armed
\* the timers set by the watcher which that startWatcher call created
StartStopSparesNew ==
    \A p \in pendingStops \ pendingStops' :
        \A t \in armedTimers : (p.n \in openSubs /\ t.by = p.n) => t \in armedTimers'

\* C37: once a stopWatcher call has run to its end, no regeneration set by
\* the stopped watcher is armed any more, and the stopWatcher call made by
\* startWatcher never cancels a regeneration set by the watcher that this
\* startWatcher call has created.
C37_StopCancelsOwnTimersOnly == []NoTimerOfStopped /\ [][StartStopSparesNew]_vars

-----------------------------------------------------------------------------
(* SpecIntegrity: integrity checks called through the route and directly,   *)
(* over the example library, while files disappear and media are viewed.    *)

InitIntegrity ==
    /\ ExampleStore
    /\ userFolders = GrantsAfterGenerate(Root, {TopA, TopB}, {"u1"}, {})
    /\ fsFiles = ExampleFiles /\ fsDirs = {TopA, TopB} /\ fsOps = 0
    /\ FeedIdle
    /\ IndexIdle
    /\ ScoreIdle
    /\ WatcherIdle
    /\ IntegrityIdle
    /\ ThumbIdle
    /\ ToggleIdle
    /\ ScanIdle
    /\ SweepIdle
    /\ BatchIdle
    /\ IdentityIdle

NextIntegrity ==
    \/ \E c \in ChkCallers, via \in ChkVias : CheckCall(c, via)
    \/ \E c \in ChkCallers : CheckStat(c)
    \/ \E f \in ExampleFiles : FsRemove(f)
    \/ \E m \in media : View("u1", m.sourceId, m.id)

SpecIntegrity == InitIntegrity /\ [][NextIntegrity]_vars

\* the calls rejected because a check was in progress
ChkRejected(c) ==
    /\ chk[c].pc = "done"
    /\ \A r \in chk[c].res : r.status \in {"409", "threw"} /\ r.error = InProgress

\* C5: at most one integrity check is in progress; a call made during
\* another check ends at once with the conflict error, stats no file and
\* deletes no record.
C5_NonReentrant ==
    /\ Cardinality({c \in ChkCallers : chk[c].pc = "stat"}) <= 1
    /\ (\E c \in ChkCallers : chk[c].pc = "stat") => isRunning
    /\ \A c \in ChkCallers :
         chk[c].during # {} =>
            /\ ChkRejected(c)
            /\ chk[c].stats = 0
            /\ \A r \in chk[c].res : r.deleted = {} /\ r.deletedIds = <<>>

\* a call through the route rejected while the other caller's check, which
\* has found a missing file, is still in its loop
C5_Witness ==
    \E c, d \in ChkCallers :
        /\ chk[c].pc = "stat" /\ chk[c].deletedIds # <<>>
        /\ chk[d].during = {c} /\ chk[d].via = "route"
        /\ ChkRejected(d)

\* C33: once checkIntegrity has returned or thrown, also on a failed
\* delete, isCheckRunning() is false and the next call is accepted, through
\* the route and directly.
C33_FlagReleased ==
    (\A c \in ChkCallers : chk[c].pc # "stat") =>
        /\ ~isRunning
        /\ \A via \in ChkVias : IntegrityEntry(via, isRunning) = "entered"

\* a check has thrown on a failed delete, and a call made after it is in
\* its stat loop
C33_Witness ==
    \E c, d \in ChkCallers :
        /\ \E r \in chk[c].res : r.status = "threw" /\ r.error # InProgress
        /\ chk[d].pc = "stat"

-----------------------------------------------------------------------------
(* SpecThumb: calls of getThumbnail for one media file by two callers,      *)
(* while the file is written, deleted and created again and the artifact    *)
(* is removed.                                                              *)

InitThumb ==
    /\ ExampleStore
    /\ userFolders = GrantsAfterGenerate(Root, {TopA, TopB}, {"u1"}, {})
    /\ fsFiles = ExampleFiles /\ fsDirs = {TopA, TopB} /\ fsOps = 0
    /\ FeedIdle
    /\ IndexIdle
    /\ ScoreIdle
    /\ WatcherIdle
    /\ IntegrityIdle
    /\ ToggleIdle
    /\ ScanIdle
    /\ SweepIdle
    /\ BatchIdle
    /\ IdentityIdle
    /\ cache = [i \in {ThumbMediaId} |-> {}] /\ cacheFile = {} /\ thumbFiles = {}
    /\ srcStat = {[size |-> 1, mtimeMs |-> 0]} /\ fsClock = 0 /\ lastOk = {}
    /\ th = [c \in ThCallers |-> IdleTh] /\ thCalls = 0

NextThumb ==
    \/ \E c \in ThCallers : ThumbCall(c)
    \/ \E c \in ThCallers : ThumbHash(c)
    \/ \E c \in ThCallers : ThumbAccess(c)
    \/ \E c \in ThCallers : ThumbGenerate(c)
    \/ \E c \in ThCallers : ThumbHashAfter(c)
    \/ \E c \in ThCallers : ThumbSave(c)
    \/ \E size \in FileSizes : FileModify(size)
    \/ FileDelete
    \/ \E size \in FileSizes : FileCreate(size)
    \/ \E p \in thumbFiles : ArtifactRemove(p)

SpecThumb == InitThumb /\ [][NextThumb]_vars

\* the call of c followed a call that returned, no other call was under
\* way, and neither the file nor the artifact changed from the start of
\* that call to the end of this one
ThumbUnchanged(c) ==
    /\ th[c].pc = "done"
    /\ th[c].alone
    /\ \E prev \in th[c].prev : prev.start = th[c].endClock

\* the call of c followed a call that returned, no other call was under
\* way, and the file's size or mtime changed between the two calls
ThumbChanged(c) ==
    /\ th[c].pc = "done"
    /\ th[c].alone
    /\ \E prev \in th[c].prev :
         /\ prev.src # {} /\ th[c].srcAtCall # {}
         /\ prev.src # th[c].srcAtCall

Generating == {c \in ThCallers : th[c].pc = "generate"}

\* C19: at most one thumbnail generation is in flight for a media id.
C19_OneGenerationInFlight == Cardinality(Generating) <= 1

----------------------------------------------------------------------------
(* SpecHidden: what a user's feed leaves out.  The library holds a file in *)
(* a sub-folder of A; B is a source the first user was not granted (a      *)
(* folder picked up by the watcher's regeneration).  Users hide media and  *)
(* folders and request feed pages.                                         *)

SubA == Join(TopA, "sub")
FileAS1 == Join(SubA, "1.jpg")
HiddenFiles == {FileA1, FileAS1, FileB1}
HideFolderPaths == {SubA, TopB}

InitHidden ==
    /\ sources = SourcesAfterGenerate(Root, {TopA, TopB}, {}, 0)
    /\ media = {MediaRow(f, 0) : f \in scanDirectory(Root, HiddenFiles)}
    /\ interactions = <<>> /\ hiddenFolders = {}
    /\ \E d2 \in {{}, {TopA, TopB}} :
         userFolders = GrantsAfterGenerate(Root, {TopA}, {"u1"}, {})
                         \cup GrantsAfterGenerate(Root, d2, {"u2"}, {})
    /\ fsFiles = HiddenFiles /\ fsDirs = {TopA, TopB, SubA} /\ fsOps = 0
    /\ FeedIdle
    /\ IndexIdle
    /\ ScoreIdle
    /\ WatcherIdle
    /\ IntegrityIdle
    /\ ThumbIdle
    /\ ToggleIdle
    /\ ScanIdle
    /\ SweepIdle
    /\ BatchIdle
    /\ IdentityIdle

NextHidden ==
    \/ \E u \in Users, s \in SourceIdsOf(sources), m \in media : Hide(u, s, m.id)
    \/ \E u \in Users, s \in SourceIdsOf(sources), f \in HideFolderPaths : HideFolder(u, s, f)
    \/ /\ feedResp = {}
       /\ \E u \in Users, src \in SourceOpts :
            FeedRequest(u, 0, MaxPageSize, {}, src)
    \/ FeedDeliver

SpecHidden == InitHidden /\ [][NextHidden]_vars

\* the row of user_interactions for (u, m's source, m) has hidden = 1
HiddenBy(u, m) ==
    /\ <<u, m.sourceId, m.id>> \in DOMAIN interactions
    /\ interactions[<<u, m.sourceId, m.id>>].hidden = 1

\* m lies in or below a folder of its source that u has hidden
UnderHiddenFolder(u, m) ==
    \E h \in hiddenFolders :
        /\ h.userId = u /\ h.sourceId = m.sourceId /\ h.hidden = 1
        /\ (h.folderPath = m.path \/ IsUnder(m.path, h.folderPath))

GrantedTo(u, sourceId) ==
    \E g \in userFolders : g.userId = u /\ g.sourceId = sourceId

MediaById(id) == CHOOSE m \in media : m.id = id

\* C14: neither the scored ranking nor the page of a user's feed holds a
\* media item the user has hidden, an item in or below a folder the user
\* has hidden, or an item of a source the user was not granted; every item
\* of the page comes from the ranking.
C14_FeedExcludesHidden ==
    \A r \in feedResp :
        /\ \A i \in 1..Len(r.ranked) :
              /\ ~HiddenBy(r.userId, MediaById(r.ranked[i]))
              /\ ~UnderHiddenFolder(r.userId, MediaById(r.ranked[i]))
              /\ GrantedTo(r.userId, MediaById(r.ranked[i]).sourceId)
        /\ \A j \in 1..Len(r.data.items) :
              \E i \in 1..Len(r.ranked) : r.data.items[j].id = r.ranked[i]

\* a non-empty feed of a user who has hidden an item or a folder while
\* some source is not granted to that user
C14_Witness ==
    \E r \in feedResp :
        /\ Len(r.data.items) > 0
        /\ \E m \in media : HiddenBy(r.userId, m) \/ UnderHiddenFolder(r.userId, m)
        /\ \E m \in media : ~GrantedTo(r.userId, m.sourceId)
----------------------------------------------------------------------------
(* SpecIdentity: the identity of a folder.  generateSources runs for any   *)
(* set of top-level folders, with or without a user, before and after      *)
(* restarts of the server, and records each identity it computes.          *)

IdentityDirs == {TopA, TopB, SubA}

\* generateSources(db, rootFolder, userId): every top-level folder gets its
\* identity computed and its rows inserted.
GenerateSources(dirs, userId) ==
    /\ Cardinality(identities) < MaxIdentities
    /\ fsDirs' = dirs
    /\ sources' = SourcesAfterGenerate(Root, dirs, sources, now)
    /\ userFolders' = GrantsAfterGenerate(Root, dirs, userId, userFolders)
    /\ identities' = identities \cup
         {[folderPath |-> d, proc |-> proc, rowsBefore |-> Cardinality(sources),
           at |-> now,
           id |-> generateSourceId(d),
           displayName |-> generateDisplayName(d),
           avatarSeed |-> generateAvatarSeed(d)] :
              d \in getTopLevelFolders(Root, dirs)}
    /\ now' = IF now < MaxGenTime THEN now + 1 ELSE now
    /\ UNCHANGED <<toggleVars, scanVars, sweepVars, batchVars, proc, media, interactions, hiddenFolders, opCount, feedResp, fsFiles, fsOps, indexVars, scoreVars, watcherVars, integrityVars, thumbVars>>

\* the server is stopped and started again; the database file stays
Restart ==
    /\ proc < MaxRestarts
    /\ proc' = proc + 1
    /\ UNCHANGED <<toggleVars, scanVars, sweepVars, batchVars, identities, storeVars, feedVars, fsVars, indexVars, scoreVars, watcherVars, integrityVars, thumbVars>>

InitIdentity ==
    /\ media = {} /\ sources = {} /\ userFolders = {} /\ interactions = <<>> /\ hiddenFolders = {}
    /\ fsFiles = {} /\ fsDirs = {} /\ fsOps = 0
    /\ FeedIdle
    /\ IndexIdle
    /\ ScoreIdle
    /\ WatcherIdle
    /\ IntegrityIdle
    /\ ThumbIdle
    /\ ToggleIdle
    /\ ScanIdle
    /\ SweepIdle
    /\ BatchIdle
    /\ IdentityIdle

NextIdentity ==
    \/ \E dirs \in SUBSET IdentityDirs, userId \in {{}, {"u1"}} :
         GenerateSources(dirs, userId)
    \/ Restart

SpecIdentity == InitIdentity /\ [][NextIdentity]_vars

\* C22: a run of generateSources keeps every row of sources as it is, and a
\* run over folders that all have a row leaves the table unchanged.
C22_SourcesKept ==
    [][/\ \A x \in sources : x \in sources'
       /\ (\A d \in getTopLevelFolders(Root, fsDirs') :
               \E x \in sources : x.folderPath = d) => sources' = sources]_vars

\* generateSources has run for a folder whose row was created earlier
C22_Witness ==
    \E a \in identities, x \in sources :
        /\ x.folderPath = a.folderPath
        /\ x.id = a.id /\ x.displayName = a.displayName /\ x.avatarSeed = a.avatarSeed
        /\ x.createdAt < a.at

----------------------------------------------------------------------------
(* SpecBatch: POST /api/thumbnails/batch over a library of three indexed   *)
(* files, one of which is gone from the disk, and one id that was never    *)
(* indexed.  Each callback of ids.map runs getThumbnail; the callbacks of  *)
(* one request interleave at their awaits.  The disk does not change and   *)
(* writes succeed.  The server may be restarted between two requests.      *)

BatchIndexed == {FileA1, FileA2, FileB1}
BatchOnDisk == {FileA1, FileA2}
UnknownId == generateFileId(FileR)
BatchIds == {generateFileId(f) : f \in BatchIndexed} \cup {UnknownId}

\* the request bodies: every short list of ids, and two long lists around
\* the limit
BatchInputs ==
    UNION {[1..n -> BatchIds] : n \in 0..MaxBatchLen}
      \cup {[i \in 1..n |-> UnknownId] : n \in {BatchLimit, BatchLimit + 1}}

\* fs.stat(mediaPath), {} when the file is missing
StatOf(mediaPath) ==
    IF mediaPath \in fsFiles THEN {[size |-> 1, mtimeMs |-> 0]} ELSE {}

ItemResult(id, success, error) == [id |-> id, success |-> success, error |-> error]

\* one callback of ids.map up to its first await: the SELECT, and
\* getThumbnail's read of the cache
StartItem(id) ==
    IF id \notin MediaIdsOf(media)
    THEN [id |-> id, pc |-> "done", cached |-> {}, snapshot |-> {},
          res |-> {ItemResult(id, FALSE, "Not found")}]
    ELSE [id |-> id, pc |-> IF cache[id] # {} THEN "check" ELSE "generate",
          cached |-> cache[id], snapshot |-> {}, res |-> {}]

\* results.map(...) of a Promise.all, which gives up at the first failure
SettleAll_FailFast(its) ==
    IF \E i \in 1..Len(its) : ~TheOne(its[i].res).success
    THEN [i \in 1..Len(its) |-> ItemResult(its[i].id, FALSE, "Batch failed")]
    ELSE [i \in 1..Len(its) |-> TheOne(its[i].res)]

\* results.map((r) => r.status === 'fulfilled' ? r.value : r.reason) of
\* Promise.allSettled: the value of every callback, in the order of ids
SettleAll(its) == [i \in 1..Len(its) |-> TheOne(its[i].res)]

\* the handler up to its await: the two 400 answers, or the fan-out
BatchStart(ids) ==
    /\ batchReq.status = "none"
    /\ batches < MaxBatches
    /\ batches' = batches + 1
    /\ IF Len(ids) = 0 \/ Len(ids) > BatchLimit
       THEN /\ batchReq' = [status |-> "rejected", ids |-> ids, results |-> <<>>,
                            genBefore |-> genCount]
            /\ items' = <<>>
       ELSE /\ batchReq' = [status |-> "open", ids |-> ids, results |-> <<>>,
                            genBefore |-> genCount]
            /\ items' = [i \in 1..Len(ids) |-> StartItem(ids[i])]
    /\ UNCHANGED <<toggleVars, scanVars, sweepVars, genCount, proc, identities, thumbVars, storeVars, feedVars, fsVars, indexVars, scoreVars, watcherVars, integrityVars>>

BatchUnchanged ==
    UNCHANGED <<toggleVars, scanVars, sweepVars, batchReq, batches, proc, identities, srcStat, fsClock, lastOk, th, thCalls, storeVars, feedVars, fsVars, indexVars, scoreVars, watcherVars, integrityVars>>

\* getThumbnail with a cache entry: getFileHash, the comparison, fs.access
ItemCheck(i) ==
    /\ items[i].pc = "check"
    /\ LET id == items[i].id
           cached == TheOne(items[i].cached)
           st == StatOf(MediaById(id).path)
       IN  IF st # {} /\ cached.hash = getFileHash(TheOne(st)) /\ cached.path \in thumbFiles
           THEN /\ items' = [items EXCEPT ![i].pc = "done",
                                ![i].res = {ItemResult(id, TRUE, "")}]
                /\ UNCHANGED cache
           ELSE /\ items' = [items EXCEPT ![i].pc = "generate"]
                /\ cache' = IF st # {} /\ cached.hash # getFileHash(TheOne(st))
                            THEN cache
                            ELSE [cache EXCEPT ![id] = {}]
    /\ UNCHANGED <<cacheFile, thumbFiles, genCount>>
    /\ BatchUnchanged

\* await generateImageThumbnail / generateVideoThumbnail; a missing file
\* makes it throw, and the callback's catch turns that into its result
ItemGenerate(i) ==
    /\ items[i].pc = "generate"
    /\ LET id == items[i].id
       IN  IF StatOf(MediaById(id).path) # {}
           THEN /\ thumbFiles' = thumbFiles \cup {getThumbnailPath(id)}
                /\ genCount' = [genCount EXCEPT ![id] = @ + 1]
                /\ items' = [items EXCEPT ![i].pc = "store"]
           ELSE /\ items' = [items EXCEPT ![i].pc = "done",
                                ![i].res = {ItemResult(id, FALSE, "ENOENT")}]
                /\ UNCHANGED <<thumbFiles, genCount>>
    /\ UNCHANGED <<cache, cacheFile>>
    /\ BatchUnchanged

\* await getFileHash; this.cache.set(mediaId, cacheEntry); saveCache() up
\* to its await: the entries to write are taken from the map here
ItemStore(i) ==
    /\ items[i].pc = "store"
    /\ LET id == items[i].id
           cacheEntry == [mediaId |-> id,
                          path |-> getThumbnailPath(id),
                          type |-> MediaById(id).type,
                          generatedAt |-> now,
                          hash |-> getFileHash(TheOne(StatOf(MediaById(id).path)))]
           cacheAfter == [cache EXCEPT ![id] = {cacheEntry}]
       IN  /\ cache' = cacheAfter
           /\ items' = [items EXCEPT ![i].pc = "saving",
                           ![i].snapshot = UNION {cacheAfter[k] : k \in DOMAIN cacheAfter}]
    /\ UNCHANGED <<cacheFile, thumbFiles, genCount>>
    /\ BatchUnchanged

\* fs.writeFile(this.cacheFile, ...) of this call ends: the file holds what
\* this call wrote, whatever another call wrote before; return thumbnailPath
ItemSaved(i) ==
    /\ items[i].pc = "saving"
    /\ cacheFile' = items[i].snapshot
    /\ items' = [items EXCEPT ![i].pc = "done",
                    ![i].res = {ItemResult(items[i].id, TRUE, "")}]
    /\ UNCHANGED <<cache, thumbFiles, genCount>>
    /\ BatchUnchanged

\* Promise.allSettled has settled: the answer
BatchRespond ==
    /\ batchReq.status = "open"
    /\ \A i \in 1..Len(items) : items[i].pc = "done"
    /\ batchReq' = [batchReq EXCEPT !.status = "answered", !.results = SettleAll(items)]
    /\ UNCHANGED <<toggleVars, scanVars, sweepVars, items, batches, genCount, proc, identities, thumbVars, storeVars, feedVars, fsVars, indexVars, scoreVars, watcherVars, integrityVars>>

\* the answer has been sent
BatchClose ==
    /\ batchReq.status \in {"answered", "rejected"}
    /\ batchReq' = NoBatch
    /\ items' = <<>>
    /\ UNCHANGED <<toggleVars, scanVars, sweepVars, batches, genCount, proc, identities, thumbVars, storeVars, feedVars, fsVars, indexVars, scoreVars, watcherVars, integrityVars>>

\* loadCache: new Map(cacheArray.map((item) => [item.mediaId, item]))
loadCache(file) == [id \in DOMAIN cache |-> {e \in file : e.mediaId = id}]

\* the server is restarted while no request is being served: init()
RestartService ==
    /\ batchReq.status = "none"
    /\ proc < MaxRestarts
    /\ proc' = proc + 1
    /\ cache' = loadCache(cacheFile)
    /\ UNCHANGED <<toggleVars, scanVars, sweepVars, batchVars, identities, cacheFile, thumbFiles, srcStat, fsClock, lastOk, th, thCalls, storeVars, feedVars, fsVars, indexVars, scoreVars, watcherVars, integrityVars>>

InitBatch ==
    /\ sources = SourcesAfterGenerate(Root, {TopA, TopB}, {}, 0)
    /\ userFolders = GrantsAfterGenerate(Root, {TopA, TopB}, {"u1"}, {})
    /\ media = {MediaRow(f, 0) : f \in scanDirectory(Root, BatchIndexed)}
    /\ interactions = <<>> /\ hiddenFolders = {}
    /\ fsFiles = BatchOnDisk /\ fsDirs = {TopA, TopB} /\ fsOps = 0
    /\ FeedIdle
    /\ IndexIdle
    /\ ScoreIdle
    /\ WatcherIdle
    /\ IntegrityIdle
    /\ ToggleIdle
    /\ ScanIdle
    /\ SweepIdle
    /\ cache = [id \in {generateFileId(f) : f \in BatchIndexed} |-> {}]
    /\ cacheFile = {} /\ thumbFiles = {}
    /\ srcStat = {} /\ fsClock = 0 /\ lastOk = {}
    /\ th = [c \in ThCallers |-> IdleTh] /\ thCalls = 0
    /\ IdentityIdle
    /\ batchReq = NoBatch /\ items = <<>> /\ batches = 0
    /\ genCount = [id \in {generateFileId(f) : f \in BatchIndexed} |-> 0]

NextBatch ==
    \/ \E ids \in BatchInputs : BatchStart(ids)
    \/ \E i \in 1..Len(items) : ItemCheck(i)
    \/ \E i \in 1..Len(items) : ItemGenerate(i)
    \/ \E i \in 1..Len(items) : ItemStore(i)
    \/ \E i \in 1..Len(items) : ItemSaved(i)
    \/ BatchRespond
    \/ BatchClose
    \/ RestartService

SpecBatch == InitBatch /\ [][NextBatch]_vars

\* the result an id gets when it is requested alone: success exactly for an
\* indexed file that is on the disk
AloneResult(id) ==
    IF id \notin MediaIdsOf(media) THEN ItemResult(id, FALSE, "Not found")
    ELSE IF MediaById(id).path \in fsFiles THEN ItemResult(id, TRUE, "")
    ELSE ItemResult(id, FALSE, "ENOENT")

\* C18: a batch of more ids than the limit is answered with an error and
\* generates no thumbnail; an answered batch carries one result per id, in
\* the order of the request, and each result is the one its id gets alone,
\* whatever the other ids of the batch are.
C18_BatchResults ==
    /\ Len(batchReq.ids) > BatchLimit =>
          /\ batchReq.status = "rejected"
          /\ items = <<>>
          /\ genCount = batchReq.genBefore
    /\ batchReq.status = "answered" =>
          /\ Len(batchReq.results) = Len(batchReq.ids)
          /\ \A i \in 1..Len(batchReq.ids) :
                batchReq.results[i] = AloneResult(batchReq.ids[i])

\* an answered batch of an id that fails and an id that succeeds
C18_Witness ==
    /\ batchReq.status = "answered"
    /\ \E i, j \in 1..Len(batchReq.results) :
          /\ ~batchReq.results[i].success
          /\ batchReq.results[j].success
          /\ genCount[batchReq.ids[j]] > batchReq.genBefore[batchReq.ids[j]]
\* C20: when no getThumbnail call is in flight, cache.json holds the entry
\* of every media id the service has an entry for, so that a restart loads
\* them all.
C20_ManifestComplete ==
    (\A i \in 1..Len(items) : items[i].pc = "done") =>
        \A id \in DOMAIN cache : cache[id] \subseteq cacheFile

-----------------------------------------------------------------------------
(* The integrity sweep of the thumbnails: files leave the disk, the         *)
(* integrity check removes their records, cleanupOrphanedThumbnails removes *)
(* the thumbnail files without a record.  The check and the batch requests  *)
(* are taken one after the other here.                                      *)

\* the media id in a thumbnail file's name: file.replace('.webp', '')
MediaIdOfThumb(thumbPath) == thumbPath[2][1]

\* the ids the service holds an entry for, in memory and in cache.json
CachedIds == {id \in DOMAIN cache : cache[id] # {}}
PersistedIds == {e.mediaId : e \in cacheFile}

\* cleanupOrphanedThumbnails(thumbnailDir): SELECT id FROM media, readdir,
\* unlink of every file but cache.json whose id is not in the table
CleanupOrphanedThumbnails ==
    /\ LET mediaIds == MediaIdsOf(media)
           orphans == {p \in thumbFiles : MediaIdOfThumb(p) \notin mediaIds}
       IN  /\ thumbFiles' = thumbFiles \ orphans
           /\ cleanup' = {[deletedCount |-> Cardinality(orphans),
                           mediaIds |-> mediaIds,
                           files |-> {MediaIdOfThumb(p) : p \in thumbFiles \ orphans},
                           cached |-> CachedIds,
                           persisted |-> PersistedIds]}
    /\ UNCHANGED <<cache, cacheFile, srcStat, fsClock, lastOk, th, thCalls>>
    /\ UNCHANGED <<toggleVars, scanVars, batchVars, identityVars, storeVars, feedVars, fsVars, indexVars, scoreVars, watcherVars, integrityVars>>

NextSweep ==
    \/ \E ids \in BatchInputs :
          /\ \A c \in ChkCallers : chk[c].pc # "stat"
          /\ BatchStart(ids)
    \/ \E i \in 1..Len(items) : ItemCheck(i)
    \/ \E i \in 1..Len(items) : ItemGenerate(i)
    \/ \E i \in 1..Len(items) : ItemStore(i)
    \/ \E i \in 1..Len(items) : ItemSaved(i)
    \/ BatchRespond
    \/ BatchClose
    \/ \E f \in BatchOnDisk : batchReq.status = "none" /\ FsRemove(f)
    \/ batchReq.status = "none" /\ CheckCall("k1", "method")
    \/ CheckStat("k1")
    \/ CleanupOrphanedThumbnails

SpecSweep == InitBatch /\ [][NextSweep]_vars

\* C23: when cleanupOrphanedThumbnails has completed, neither a thumbnail
\* file nor an entry of the service's in-memory index nor an entry of
\* cache.json is left for a media id without a record in media.
C23_NoOrphanedEntries ==
    \A r \in cleanup : (r.files \cup r.cached \cup r.persisted) \subseteq r.mediaIds

\* a cleanup that has unlinked the thumbnail of a removed record
C23_OrphanFileRemoved ==
    \E r \in cleanup : r.deletedCount > 0 /\ r.files \subseteq r.mediaIds

-----------------------------------------------------------------------------
(* SpecReport: checkIntegrity while the watcher handles the add and unlink  *)
(* events of files that appear and disappear between two of its stats.      *)

\* the files that leave and reach the disk during a check
ReportFiles == ExampleFiles \cup {FileR}

NextReport ==
    \/ StartWatcher
    \/ CheckCall("k1", "method")
    \/ CheckStat("k1")
    \/ \E f \in ReportFiles : FsRemove(f)
    \/ \E f \in ReportFiles : FsAdd(f)
    \/ \E w \in openSubs, f \in ReportFiles : OnAdd(w, f)
    \/ \E w \in openSubs, f \in ReportFiles : OnUnlink(w, f)

SpecReport == InitIntegrity /\ [][NextReport]_vars

\* C24: in the report of a check that returned, validFiles + missingFiles
\* is totalMedia and deletedIds lists exactly the records that this run
\* removed from media, also when the watcher has inserted or deleted
\* records between two stats of the check.
C24_ReportExact ==
    \A c \in ChkCallers : \A r \in chk[c].res :
        r.status = "returned" =>
            /\ r.validFiles + r.missingFiles = r.totalMedia
            /\ Range(r.deletedIds) = r.deleted

\* the counts of a returned report add up, and the run removed a record
C24_CountsAddUp ==
    \E c \in ChkCallers : \E r \in chk[c].res :
        /\ r.status = "returned" /\ r.deleted # {}
        /\ r.validFiles + r.missingFiles = r.totalMedia

-----------------------------------------------------------------------------
(* SpecScan: index requests of one user over a disk on which a directory    *)
(* may lose its read permission.                                            *)

InitScan ==
    /\ media = {} /\ sources = {} /\ userFolders = {} /\ interactions = <<>> /\ hiddenFolders = {}
    /\ fsFiles \in SUBSET IndexFiles /\ fsDirs = {TopA, TopB} /\ fsOps = 0
    /\ fsDenied \in {{}, {TopB}}
    /\ FeedIdle
    /\ IndexIdle
    /\ ScoreIdle
    /\ WatcherIdle
    /\ IntegrityIdle
    /\ ThumbIdle
    /\ ToggleIdle
    /\ SweepIdle
    /\ BatchIdle
    /\ IdentityIdle

NextScan ==
    \/ \E d \in {Root, TopA, TopB} : FsDeny(d)
    \/ \E f \in IndexFiles : FsAdd(f)
    \/ \E m \in media : View("u1", m.sourceId, m.id)
    \/ \E r \in IndexReqs : IndexStart(r, "u1")
    \/ \E r \in IndexReqs : IndexSources(r)
    \/ \E r \in IndexReqs : IndexScan(r)
    \/ \E r \in IndexReqs : IndexDiff(r)

SpecScan == InitScan /\ [][NextScan]_vars

\* C26: an index run that met a directory it could not list still returns
\* its summary, and every supported file in the directories it could list
\* has been scanned and has a record when the run ends.
C26_ScanSurvivesDenied ==
    \A res \in IndexResults :
        res.denied # {} =>
            /\ res.status = "returned"
            /\ res.listable \subseteq res.scanned
            /\ res.listable \subseteq res.after

\* C34: a run that could not list a directory deletes every stored record
\* whose path lies below that directory; when the directory is the root,
\* it deletes every stored record.
C34_DeniedRecordsDeleted ==
    \A res \in IndexResults :
        \A d \in res.denied, p \in res.stored :
            IsUnder(p, d) => p \in res.deleted /\ p \notin res.after

\* a run that returned although a directory could not be listed, with the
\* files of the other directories indexed
C26_ReturnedDespiteDenied ==
    \E res \in IndexResults :
        /\ res.denied # {} /\ res.status = "returned"
        /\ res.listable # {} /\ res.listable \subseteq res.after

-----------------------------------------------------------------------------
(* SpecToggle: like, save, hide and view requests of two users for the      *)
(* media and sources of the example library, in every order.  A request is  *)
(* served from its SELECT to its answer without an await, so the requests   *)
(* take their turns one after the other.                                    *)

ToggleUsers == {"u1", "u2"}
ToggleMedia == {generateFileId(FileA1), generateFileId(FileB1)}
ToggleKinds == {"liked", "saved", "hidden"}

RECURSIVE SumOver(_, _)
SumOver(f, keys) ==
    IF keys = {} THEN 0
    ELSE LET k == CHOOSE x \in keys : TRUE IN f[k] + SumOver(f, keys \ {k})

AppliedTotal == SumOver(applied, DOMAIN applied)

AppliedTo(key) == IF key \in DOMAIN applied THEN applied[key] ELSE 0

NextToggle ==
    \/ \E u \in ToggleUsers, s \in SourceIdsOf(sources), m \in ToggleMedia, flag \in ToggleKinds :
          /\ AppliedTotal < MaxToggles
          /\ ToggleRequest(u, s, m, flag)
          /\ UNCHANGED opCount
    \/ \E u \in ToggleUsers, s \in SourceIdsOf(sources), m \in ToggleMedia :
          /\ AppliedTotal < MaxToggles
          /\ ViewRequest(u, s, m)
          /\ UNCHANGED opCount

\* both users have indexed the example library
InitToggle ==
    /\ ExampleStore
    /\ userFolders = GrantsAfterGenerate(Root, {TopA, TopB}, ToggleUsers, {})
    /\ fsFiles = ExampleFiles /\ fsDirs = {TopA, TopB} /\ fsOps = 0
    /\ FeedIdle
    /\ IndexIdle
    /\ ScoreIdle
    /\ WatcherIdle
    /\ IntegrityIdle
    /\ ThumbIdle
    /\ ToggleIdle
    /\ ScanIdle
    /\ SweepIdle
    /\ BatchIdle
    /\ IdentityIdle

SpecToggle == InitToggle /\ [][NextToggle]_vars

\* the interaction rows of a user
RowsOfUser(v) == {<<k, interactions[k]>> : k \in {x \in DOMAIN interactions : x[1] = v}}

\* C35: a like, save, hide or view request of one user leaves the feed
\* candidates of every other user as they were: the same media, with the
\* same liked and saved flags and view count, from which the score terms
\* are computed.
C35_UserIsolation ==
    [][\A v \in ToggleUsers :
          RowsOfUser(v)' = RowsOfUser(v) => Candidates(v, {})' = Candidates(v, {})]_vars

\* one user has liked and another has hidden a media that a third view of
\* the first user's feed still holds, with that user's own flags
C35_Witness ==
    \E a, b \in ToggleUsers : \E m \in media :
        /\ a # b
        /\ InteractionOf(a, m).hidden = 1
        /\ InteractionOf(b, m).liked = 1
        /\ \E c \in Candidates(b, {}) : c.id = m.id /\ c.liked = 1 /\ c.viewCount = 0


\* C29: for the sources and media of the store, a row of (user, source,
\* media) exists exactly when a request was applied to that key; each of
\* its flags is the number of toggles applied to that key and flag modulo
\* 2, so the first toggle creates the row with the flag set and a toggle
\* changes no other flag and not the view count, which is the number of
\* views applied.
C29_TogglesCount ==
    /\ \A k \in DOMAIN applied : <<k[1], k[2], k[3]>> \in DOMAIN interactions
    /\ \A key \in DOMAIN interactions :
          /\ \A flag \in ToggleKinds :
                interactions[key][flag] = AppliedTo(key \o <<flag>>) % 2
          /\ interactions[key].viewCount = AppliedTo(key \o <<"viewCount">>)

\* a row whose flag was toggled twice and is clear again, beside a flag of
\* the same row that was toggled once
C29_Witness ==
    \E key \in DOMAIN interactions : \E f, g \in ToggleKinds :
        /\ AppliedTo(key \o <<f>>) = 2 /\ interactions[key][f] = 0
        /\ AppliedTo(key \o <<g>>) = 1 /\ interactions[key][g] = 1

-----------------------------------------------------------------------------
(* SpecStore: the store under index requests of user u1 and the events of   *)
(* one running watcher, from the indexed folder A.  Folder B may be on the   *)
(* disk without a source row; files reach the disk in A, in B and directly  *)
(* in the root.                                                             *)

StoreFiles == {FileA1, FileB1, FileR}

\* folder A was indexed at time 0; since then folder B and the other files
\* have reached the disk
InitStore ==
    /\ sources = SourcesAfterGenerate(Root, {TopA}, {}, 0)
    /\ userFolders = GrantsAfterGenerate(Root, {TopA}, {"u1"}, {})
    /\ media = {MediaRow(f, 0) : f \in scanDirectory(Root, {FileA1})}
    /\ interactions = <<>> /\ hiddenFolders = {}
    /\ fsDirs = {TopA, TopB} /\ fsOps = 0
    /\ fsFiles = StoreFiles
    /\ FeedIdle
    /\ IndexIdle
    /\ ScoreIdle
    /\ WatcherIdle
    /\ IntegrityIdle
    /\ ThumbIdle
    /\ ToggleIdle
    /\ ScanIdle
    /\ SweepIdle
    /\ BatchIdle
    /\ IdentityIdle

NextStore ==
    \/ openSubs = {} /\ StartWatcher
    \/ \E w \in openSubs : OnAddDir(w, TopB)
    \/ \E t \in armedTimers : DebounceFire(t)
    \/ WatcherTick
    \/ \E w \in openSubs, f \in {FileB1, FileR} : OnAdd(w, f)
    \/ \E w \in openSubs : OnUnlink(w, FileA1)
    \/ \E w \in openSubs : OnUnlinkDir(w, TopA)
    \/ IndexStart("r1", "u1")
    \/ IndexSources("r1")
    \/ IndexScan("r1")
    \/ IndexDiff("r1")

SpecStore == InitStore /\ [][NextStore]_vars

\* C31: the sourceId of every media record is the id of a row of sources,
\* whatever index runs and watcher events came before; no record exists
\* for a file directly in the root or in a folder without a source row.
C31_MediaHasSource ==
    \A m \in media : m.sourceId \in SourceIdsOf(sources)

\* the add handler has met a file of folder B while B has no source row and
\* its regeneration is pending, and the store holds a record
C31_Witness ==
    /\ media # {}
    /\ debounceTimer # {}
    /\ ~\E x \in sources : x.folderPath = TopB
    /\ \E e \in lastFsEvent : e.kind = "add" /\ e.path = FileB1 /\ e.outcome = "throws"

------------------------------------------------------------------------

\* an index request has run its generateSources: one is past that step, or
\* one has finished
SourcesGenerated ==
    \/ \E r \in IndexReqs : idx[r].pc \in {"scan", "diff", "done"}
    \/ lastRun # {}

\* C36: the regeneration of the watcher grants its source rows to nobody:
\* folder B is granted to a user only once an index request made with a
\* user id has generated the sources, and until then no feed of a user
\* holds media of B; a feed holds media of granted sources only.
C36_RegeneratedNotGranted ==
    /\ (\E g \in userFolders : g.sourceId = generateSourceId(TopB)) => SourcesGenerated
    /\ \A u \in Users : \A c \in Candidates(u, {}) :
          \E g \in userFolders : g.userId = u /\ g.sourceId = c.sourceId

\* the regeneration has created the row of B, the add handler has inserted
\* a record below B, and the feed of u1 holds media of A only
C36_Witness ==
    /\ regens # {}
    /\ \E x \in sources : x.folderPath = TopB
    /\ \E m \in media : m.path = FileB1
    /\ ~\E g \in userFolders : g.sourceId = generateSourceId(TopB)
    /\ Candidates("u1", {}) # {}
    /\ \A c \in Candidates("u1", {}) : c.sourceId = generateSourceId(TopA)

-----
(* SpecMirror: the store kept up to date by the watcher.  Folder A was      *)
(* indexed at time 0; a file reaches or leaves the disk and the watcher     *)
(* delivers its event; folder B is on the disk and its regeneration may     *)
(* have run or not.                                                         *)

MirrorFiles == {FileA1, FileA2, FileB1}

NextMirror ==
    \/ openSubs = {} /\ StartWatcher
    \/ \E f \in MirrorFiles : FsAdd(f)
    \/ \E f \in MirrorFiles : FsRemove(f)
    \/ \E w \in openSubs : OnAddDir(w, TopB)
    \/ \E t \in armedTimers : DebounceFire(t)
    \/ WatcherTick
    \/ \E w \in openSubs, f \in MirrorFiles : f \in fsFiles /\ OnAdd(w, f)
    \/ \E w \in openSubs, f \in MirrorFiles : f \notin fsFiles /\ OnUnlink(w, f)

SpecMirror == InitWatcher /\ [][NextMirror]_vars

\* id, sourceId, depth and type of the records of a path
RecordsOf(tbl, path) ==
    {[id |-> m.id, sourceId |-> m.sourceId, depth |-> m.depth, type |-> m.type] :
        m \in {x \in tbl : x.path = path}}

\* the media tables a full index run over the disk of this state ends with:
\* generateSources, scanDirectory, indexMediaFiles, in every scan order
Reindexed ==
    LET src == SourcesAfterGenerate(Root, fsDirs, sources, now)
    IN  {indexMediaFiles(mediaFiles, existingMedia, media, src, interactions, now).media :
            mediaFiles \in Perms(scanDirectory(Root, fsFiles)),
            existingMedia \in Perms(PathsOf(media))}

\* C32: when the watcher has handled the add or unlink event of a file as
\* it is on the disk, the store holds for that path what a full index run
\* over the disk would leave: the same record by id, sourceId, depth and
\* type, or none.
C32_WatcherMatchesReindex ==
    \A e \in lastFsEvent :
        /\ (MediaEvent(e, "add") /\ e.path \in fsFiles) =>
              \A tbl \in Reindexed : RecordsOf(media, e.path) = RecordsOf(tbl, e.path)
        /\ (MediaEvent(e, "unlink") /\ e.path \notin fsFiles) =>
              \A tbl \in Reindexed : RecordsOf(media, e.path) = RecordsOf(tbl, e.path)

-----------------------------------------------------------------------------
(* SpecPages: user u1 views media and requests the pages 0..MaxPage of the  *)
(* feed over the example library.                                           *)

MaxPage == 1

NextPages ==
    \/ \E m \in media : View("u1", m.sourceId, m.id)
    \/ /\ feedResp = {}
       /\ \E page \in 0..MaxPage, limit \in 0..MaxPageSize, last \in SourceOpts,
             src \in SourceOpts :
            FeedRequest("u1", page, limit, last, src)
    \/ FeedDeliver

SpecPages == Init /\ [][NextPages]_vars

\* the ranked rows of a request, from the ids of its ranking
RankedRows(r) ==
    [i \in 1..Len(r.ranked) |->
        CHOOSE c \in Candidates(r.userId, r.sourceId) : c.id = r.ranked[i]]

====
